---- MODULE Spec2Model ----
(***************************************************************************)
(* The IMAP command handlers of src/imap.js (onStore, onExpunge, onCopy,   *)
(* onFetch, onAppend, onMove) as a state machine over the document store   *)
(* (mailboxes, messages, users.storageUsed, journal) and the per-session   *)
(* selected-mailbox state.  Every database call of a handler is one atomic *)
(* step; the steps of different sessions interleave freely.                *)
(***************************************************************************)
EXTENDS Integers, Sequences, FiniteSets, TLC

\* ---------------------------------------------------------------- bounds
NumSessions == 2
MaxCmds == 1
\* the source's BULK_BATCH_SIZE is 150; scaled down so that a mailbox of a
\* few messages fills a batch
BULK_BATCH_SIZE == 2
MaxFaults == 0

Sessions == 1..NumSessions
\* slots of the mailboxes collection: a document takes a slot no document has had
MaxMailboxes == 6

MailboxIds == 1..MaxMailboxes
NoMailbox == 0
Paths == {"INBOX", "Archive", "Nope"}

Seen == "\\Seen"
Flagged == "\\Flagged"
Deleted == "\\Deleted"

VARIABLES
    mailboxes,    \* collection mailboxes: id -> document
    messages,     \* collection messages: set of documents
    user,         \* collection users: the one user's document (quota, storageUsed)
    journal,      \* collection journal: sequence of entries, in insertion order
    nextId,       \* next ObjectID
    selected,     \* per session: the selected mailbox, its uid list and modseq cursor
    wake,         \* per session: the notifier fired its mailbox since the last drain
    out,          \* per session: the responses written to the client, in order
    pc,           \* per session: the handler's position
    cmd,          \* per session: the running handler's arguments and locals
    ncmds,        \* per session: commands issued so far
    faults,       \* storage errors still to be injected
    allocLog,     \* history: per mailbox, the UIDs in allocation order
    mutations     \* history: the changes persisted to the messages collection

vars == <<mailboxes, messages, user, journal, nextId, selected, wake, out,
          pc, cmd, ncmds, faults, allocLog, mutations>>

\* ------------------------------------------------------- sequence helpers
Range(seq) == {seq[i] : i \in 1..Len(seq)}

Includes(seq, x) == \E i \in 1..Len(seq) : seq[i] = x

IndexOf(seq, x) == IF Includes(seq, x)
                   THEN CHOOSE i \in 1..Len(seq) : seq[i] = x /\ \A j \in 1..(i-1) : seq[j] # x
                   ELSE 0

RemoveAt(seq, i) == SubSeq(seq, 1, i-1) \o SubSeq(seq, i+1, Len(seq))

Max(S) == CHOOSE x \in S : \A y \in S : y <= x
Min(S) == CHOOSE x \in S : \A y \in S : x <= y

RECURSIVE SortAsc(_)
SortAsc(S) == IF S = {} THEN <<>> ELSE <<Min(S)>> \o SortAsc(S \ {Min(S)})

RECURSIVE SortDesc(_)
SortDesc(S) == IF S = {} THEN <<>> ELSE <<Max(S)>> \o SortDesc(S \ {Max(S)})

RECURSIVE SumSizes(_)
SumSizes(S) == IF S = {} THEN 0
               ELSE LET m == CHOOSE x \in S : TRUE IN m.size + SumSizes(S \ {m})

\* ------------------------------------------------------------ the store
\* flag.toLowerCase().trim()
Lower(flag) == CASE flag = "KW" -> "kw"
                 [] flag = Seen -> "\\seen"
                 [] flag = Flagged -> "\\flagged"
                 [] flag = Deleted -> "\\deleted"
                 [] flag = "\\Answered" -> "\\answered"
                 [] flag = "\\Draft" -> "\\draft"
                 [] OTHER -> flag

LowerAll(flags) == [i \in 1..Len(flags) |-> Lower(flags[i])]

\* db.database.collection('mailboxes').findOne({user, path})
FindMailbox(path) ==
    IF \E id \in MailboxIds : mailboxes[id].exists /\ mailboxes[id].path = path
    THEN CHOOSE id \in MailboxIds : mailboxes[id].exists /\ mailboxes[id].path = path
    ELSE NoMailbox

MessagesOf(mb) == {m \in messages : m.mailbox = mb}

MessageByUid(mb, uid) == CHOOSE m \in messages : m.mailbox = mb /\ m.uid = uid

\* find(query).sort([['uid', 1]]): the matching documents in ascending uid order
SortedByUid(docs) ==
    LET uids == SortAsc({m.uid : m \in docs})
    IN [i \in 1..Len(uids) |-> CHOOSE m \in docs : m.uid = uids[i]]

NoMessage == [id |-> 0, mailbox |-> 0, uid |-> 0, modseq |-> 0, flags |-> <<>>,
              seen |-> FALSE, flagged |-> FALSE, deleted |-> FALSE, size |-> 0]

\* ------------------------------------------------ session (imap-core) state
\* one line written to the client; ref is the message it is about, uid the UID
\* item on the wire (0: none), e the journal entry it delivers (0: none)
Resp(t, n, ref, uid, flags, e, st) ==
    [t |-> t, n |-> n, ref |-> ref, uid |-> uid, flags |-> flags, e |-> e, st |-> st]

\* MSN of a uid in a session's uid list, 0 when the list does not hold it
Msn(uidList, uid) == IndexOf(uidList, uid)

\* session.formatResponse('FETCH', uid, {uid, flags}) written to the client
FetchResponse(s, message, isUid) ==
    IF Includes(selected[s].uidList, message.uid)
    THEN <<Resp("FETCH", Msn(selected[s].uidList, message.uid), message.uid,
                IF isUid THEN message.uid ELSE 0, message.flags, 0, "")>>
    ELSE <<>>

\* session.formatResponse('EXPUNGE', uid): the old MSN, the uid leaves the list
ExpungeResponse(s, uid) ==
    IF Includes(selected[s].uidList, uid)
    THEN <<Resp("EXPUNGE", Msn(selected[s].uidList, uid), uid, 0, <<>>, 0, "")>>
    ELSE <<>>

ExpungeFromList(uidList, uid) ==
    IF Includes(uidList, uid) THEN RemoveAt(uidList, IndexOf(uidList, uid)) ELSE uidList

\* ---------------------------------------------------------------- notifier
\* notifier.addEntries(user, path, entries): every entry gets a fresh modseq
\* from the mailbox's modifyIndex; the messages the entries name get it too
Stamp(entries, mb, base) ==
    [i \in 1..Len(entries) |-> [entries[i] EXCEPT !.mailbox = mb, !.modseq = base + i]]

AddEntriesJournal(path, entries) ==
    LET mb == FindMailbox(path)
    IN IF mb = NoMailbox THEN journal
       ELSE journal \o Stamp(entries, mb, mailboxes[mb].modifyIndex)

AddEntriesMailboxes(path, entries) ==
    LET mb == FindMailbox(path)
    IN IF mb = NoMailbox THEN mailboxes
       ELSE [mailboxes EXCEPT ![mb].modifyIndex = @ + Len(entries)]

\* a faulty notifier: the entries' messages keep the modseq they had
AddEntriesMessagesUnstamped(path, entries) == messages

AddEntriesMessages(path, entries) ==
    LET mb == FindMailbox(path)
        st == Stamp(entries, mb, mailboxes[mb].modifyIndex)
        Hit(m) == {i \in 1..Len(st) : st[i].message = m.id}
    IN IF mb = NoMailbox THEN messages
       ELSE {IF m.mailbox = mb /\ Hit(m) # {}
             THEN [m EXCEPT !.modseq = st[Max(Hit(m))].modseq]
             ELSE m : m \in messages}

\* notifier.fire(user, path): wakes every session that has the path selected
Fire(w, path) == [s \in Sessions |-> w[s] \/ selected[s].path = path]

\* the journal entries a session has not seen yet, by journal position
Pending(s) == {i \in 1..Len(journal) :
                 /\ journal[i].mailbox = selected[s].mailbox
                 /\ journal[i].modseq > selected[s].modseq}

Deliverable(s) == {i \in Pending(s) : journal[i].ignore # s}

\* flush order: EXISTS (low uid first), FETCH, EXPUNGE (high MSN first)
DrainExistsUids(s) ==
    SortAsc({journal[i].uid : i \in {j \in Deliverable(s) :
                 /\ journal[j].command = "EXISTS"
                 /\ ~Includes(selected[s].uidList, journal[j].uid)}})

EntryOf(s, command, uid) ==
    Min({i \in Deliverable(s) : journal[i].command = command /\ journal[i].uid = uid})

DrainListAfterExists(s) == selected[s].uidList \o DrainExistsUids(s)

DrainExists(s) ==
    LET ex == DrainExistsUids(s)
    IN [k \in 1..Len(ex) |->
          Resp("EXISTS", Len(selected[s].uidList) + k, ex[k], 0, <<>>,
               EntryOf(s, "EXISTS", ex[k]), "")]

DrainFetch(s) ==
    LET list == DrainListAfterExists(s)
        fe == SortAsc({i \in Deliverable(s) :
                         journal[i].command = "FETCH" /\ Includes(list, journal[i].uid)})
    IN [k \in 1..Len(fe) |->
          Resp("FETCH", Msn(list, journal[fe[k]].uid), journal[fe[k]].uid, 0,
               journal[fe[k]].flags, fe[k], "")]

DrainExpungeMsns(s) ==
    LET list == DrainListAfterExists(s)
    IN SortDesc({Msn(list, journal[i].uid) : i \in {j \in Deliverable(s) :
                     /\ journal[j].command = "EXPUNGE"
                     /\ Includes(list, journal[j].uid)}})

DrainExpunge(s) ==
    LET list == DrainListAfterExists(s)
        xs == DrainExpungeMsns(s)
    IN [k \in 1..Len(xs) |->
          Resp("EXPUNGE", xs[k], list[xs[k]], 0, <<>>,
               EntryOf(s, "EXPUNGE", list[xs[k]]), "")]

DrainResponses(s) == DrainExists(s) \o DrainFetch(s) \o DrainExpunge(s)

DrainList(s) ==
    LET list == DrainListAfterExists(s)
        gone == {list[n] : n \in Range(DrainExpungeMsns(s))}
    IN SelectSeq(list, LAMBDA u : u \notin gone)

DrainModseq(s) == Max({selected[s].modseq} \cup {journal[i].modseq : i \in Pending(s)})

\* ----------------------------------------------------------- handler state
NoMailboxDoc == [id |-> NoMailbox, exists |-> FALSE, path |-> "", uidValidity |-> 0,
                 uidNext |-> 0, modifyIndex |-> 0, flags |-> <<>>,
                 subscribed |-> FALSE, specialUse |-> ""]

\* callback(err, status, data)
Result(err, status) ==
    [err |-> err, status |-> status, uidValidity |-> 0, sourceUid |-> <<>>,
     destinationUid |-> <<>>, modified |-> {}]

NoResult == Result(FALSE, "")

\* the locals of a handler invocation; pre and before are history: the session's
\* uid list and the stored messages when the command was issued
IdleCmd ==
    [kind |-> "", path |-> "", destination |-> "", messages |-> {}, action |-> "",
     value |-> <<>>, silent |-> FALSE, isUid |-> FALSE, unchangedSince |-> -1,
     markAsSeen |-> FALSE, changedSince |-> 0, flags |-> <<>>, size |-> 0,
     mailbox |-> NoMailboxDoc, target |-> NoMailboxDoc, opened |-> FALSE,
     cursor |-> <<>>, updateEntries |-> <<>>, notifyEntries |-> <<>>,
     count |-> 0, storage |-> 0, sourceUid |-> <<>>, destinationUid |-> <<>>,
     message |-> NoMessage, isUpdated |-> FALSE, fire |-> FALSE, pre |-> <<>>,
     before |-> {}, args |-> NoResult, result |-> NoResult,
     newname |-> "", now |-> 0, storageUsed |-> 0, removed |-> {},
     bulkError |-> FALSE]

\* a journal entry as a handler hands it to notifier.addEntries; by is history:
\* the session whose command produced it
Entry(command, ignore, uid, flags, message, by) ==
    [command |-> command, ignore |-> ignore, uid |-> uid, flags |-> flags,
     message |-> message, mailbox |-> NoMailbox, modseq |-> 0, by |-> by]

\* a storage call succeeds, or fails while errors are left to inject
Outcomes == IF faults > 0 THEN {TRUE, FALSE} ELSE {TRUE}

Spend(ok) == faults' = IF ok THEN faults ELSE faults - 1

\* the handler calls callback(...): the command's result is fixed
Callback(s, c, res) ==
    /\ pc' = [pc EXCEPT ![s] = "flush"]
    /\ cmd' = [cmd EXCEPT ![s] = [c EXCEPT !.result = res, !.cursor = <<>>,
                                            !.message = NoMessage]]

Goto(s, c, label) ==
    /\ pc' = [pc EXCEPT ![s] = label]
    /\ cmd' = [cmd EXCEPT ![s] = c]

\* a new command of a session that has a mailbox selected
Issue(s) ==
    /\ pc[s] = "idle"
    /\ ncmds[s] < MaxCmds
    /\ selected[s].path # ""
    /\ ncmds' = [ncmds EXCEPT ![s] = @ + 1]

NewCmd(s, kind) == [IdleCmd EXCEPT !.kind = kind, !.path = selected[s].path,
                                   !.pre = selected[s].uidList]

\* ------------------------------------------------------------------ flush
\* imap-core, after the handler's callback: the pending notifications of the
\* session, then the tagged response
Flush(s) ==
    /\ pc[s] = "flush"
    /\ LET st == IF cmd[s].result.err THEN "NO"
                 ELSE IF cmd[s].result.status = "OK" THEN "OK" ELSE "NO"
           tagged == <<Resp("TAGGED", 0, 0, 0, <<>>, 0, st)>>
       IN IF wake[s]
          THEN /\ out' = [out EXCEPT ![s] = @ \o DrainResponses(s) \o tagged]
               /\ selected' = [selected EXCEPT ![s].uidList = DrainList(s),
                                               ![s].modseq = DrainModseq(s)]
               /\ wake' = [wake EXCEPT ![s] = FALSE]
          ELSE /\ out' = [out EXCEPT ![s] = @ \o tagged]
               /\ UNCHANGED <<selected, wake>>
    /\ pc' = [pc EXCEPT ![s] = "idle"]
    /\ UNCHANGED <<mailboxes, messages, user, journal, nextId, cmd, ncmds,
                   faults, allocLog, mutations>>

\* the sequence sets a client can name: UIDs of the session's own view
UidSets(s) == {S \in SUBSET Range(selected[s].uidList) : S # {}}

Mutation(kind, mb, uid, by) ==
    [kind |-> kind, mailbox |-> mb, uid |-> uid, by |-> by,
     prev |-> IF mb \in MailboxIds THEN mailboxes[mb].modifyIndex ELSE 0,
     next |-> IF mb \in MailboxIds THEN mailboxes[mb].uidNext ELSE 0,
     allocs |-> IF mb \in MailboxIds THEN Len(allocLog[mb]) ELSE 0]

\* ----------------------------------------------------------------- CREATE
\* the paths a client names in CREATE, RENAME and DELETE
MailboxPaths == {"INBOX", "Archive", "Archive/Old", "Trash", "New"}

\* Date.now(): milliseconds
Clock == {1999, 2000}

\* the slots no mailbox document has had
FreeSlots == {id \in MailboxIds : mailboxes[id].id = NoMailbox}

\* a faulty index: duplicates pass
UniquePathUnchecked(mbs, path) == TRUE

\* the unique index on (user, path): no document of the collection has the path
UniquePath(mbs, path) ==
    \A id \in MailboxIds : ~(mbs[id].exists /\ mbs[id].path = path)

\* a faulty document: uidValidity in milliseconds
NewMailboxMillis(id, path, now) ==
    [id |-> id, exists |-> TRUE, path |-> path, uidValidity |-> now,
     uidNext |-> 1, modifyIndex |-> 0, flags |-> <<>>, subscribed |-> TRUE,
     specialUse |-> ""]

\* the mailbox document onCreate inserts
NewMailbox(id, path, now) ==
    [id |-> id, exists |-> TRUE, path |-> path, uidValidity |-> now \div 1000,
     uidNext |-> 1, modifyIndex |-> 0, flags |-> <<>>, subscribed |-> TRUE,
     specialUse |-> ""]

\* onCreate: findOne of the path; an existing mailbox ends the command
CreateStart(s) ==
    /\ Issue(s)
    /\ Cardinality(FreeSlots) > Cardinality({t \in Sessions : pc[t] = "create_insert"})
    /\ \E path \in MailboxPaths, now \in Clock, ok \in Outcomes :
         LET c == [NewCmd(s, "CREATE") EXCEPT !.path = path, !.now = now]
         IN /\ Spend(ok)
            /\ IF ~ok THEN Callback(s, c, Result(TRUE, ""))
               ELSE IF FindMailbox(path) # NoMailbox
               THEN Callback(s, c, Result(FALSE, "ALREADYEXISTS"))
               ELSE Goto(s, c, "create_insert")
    /\ UNCHANGED <<mailboxes, messages, user, journal, nextId, selected, wake,
                   out, allocLog, mutations>>

\* onCreate: insertOne of the mailbox document
CreateInsert(s) ==
    /\ pc[s] = "create_insert"
    /\ \E ok \in Outcomes :
         LET c == cmd[s]
             id == Min(FreeSlots)
         IN /\ Spend(ok)
            /\ IF ~ok \/ ~UniquePath(mailboxes, c.path)
               THEN /\ Callback(s, c, Result(TRUE, ""))
                    /\ mailboxes' = mailboxes
               ELSE /\ mailboxes' = [mailboxes EXCEPT ![id] = NewMailbox(id, c.path, c.now)]
                    /\ Callback(s, c, Result(FALSE, "OK"))
    /\ UNCHANGED <<messages, user, journal, nextId, selected, wake, out, ncmds,
                   allocLog, mutations>>

\* ----------------------------------------------------------------- RENAME
\* a faulty update: the mailbox starts over under the new path
SetPathAnew(doc, newname) ==
    [doc EXCEPT !.path = newname, !.uidNext = 1, !.modifyIndex = 0]

\* $set: {path: newname}
SetPath(doc, newname) == [doc EXCEPT !.path = newname]

\* onRename: findOne of the new name; an existing mailbox ends the command
RenameStart(s) ==
    /\ Issue(s)
    /\ \E path \in MailboxPaths, newname \in MailboxPaths, ok \in Outcomes :
         LET c == [NewCmd(s, "RENAME") EXCEPT !.path = path, !.newname = newname]
         IN /\ Spend(ok)
            /\ IF ~ok THEN Callback(s, c, Result(TRUE, ""))
               ELSE IF FindMailbox(newname) # NoMailbox
               THEN Callback(s, c, Result(FALSE, "ALREADYEXISTS"))
               ELSE Goto(s, c, "rename_update")
    /\ UNCHANGED <<mailboxes, messages, user, journal, nextId, selected, wake,
                   out, allocLog, mutations>>

\* onRename: findOneAndUpdate of the mailbox at path
RenameUpdate(s) ==
    /\ pc[s] = "rename_update"
    /\ \E ok \in Outcomes :
         LET c == cmd[s]
             mb == FindMailbox(c.path)
         IN /\ Spend(ok)
            /\ IF ~ok
               THEN /\ Callback(s, c, Result(TRUE, ""))
                    /\ mailboxes' = mailboxes
               ELSE IF mb = NoMailbox
               THEN /\ Callback(s, c, Result(FALSE, "NONEXISTENT"))
                    /\ mailboxes' = mailboxes
               ELSE IF ~UniquePath(mailboxes, c.newname)
               THEN /\ Callback(s, c, Result(TRUE, ""))
                    /\ mailboxes' = mailboxes
               ELSE /\ mailboxes' = [mailboxes EXCEPT ![mb] = SetPath(@, c.newname)]
                    /\ Callback(s, [c EXCEPT !.mailbox = mailboxes[mb]],
                                Result(FALSE, "OK"))
    /\ UNCHANGED <<messages, user, journal, nextId, selected, wake, out, ncmds,
                   allocLog, mutations>>

\* ----------------------------------------------------------------- DELETE
\* a faulty check: specialUse is not looked at
SpecialUseIgnored(mailbox) == FALSE

\* if (mailbox.specialUse)
SpecialUse(mailbox) == mailbox.specialUse # ""

\* onDelete: findOne of the path; a missing or special-use mailbox ends the command
DeleteStart(s) ==
    /\ Issue(s)
    /\ \E path \in MailboxPaths, ok \in Outcomes :
         LET c == [NewCmd(s, "DELETE") EXCEPT !.path = path]
             mb == FindMailbox(path)
         IN /\ Spend(ok)
            /\ IF ~ok THEN Callback(s, c, Result(TRUE, ""))
               ELSE IF mb = NoMailbox THEN Callback(s, c, Result(FALSE, "NONEXISTENT"))
               ELSE IF SpecialUse(mailboxes[mb]) THEN Callback(s, c, Result(FALSE, "CANNOT"))
               ELSE Goto(s, [c EXCEPT !.mailbox = mailboxes[mb]], "delete_mailbox")
    /\ UNCHANGED <<mailboxes, messages, user, journal, nextId, selected, wake,
                   out, allocLog, mutations>>

\* onDelete: mailboxes.deleteOne by _id; whether a document was removed is not
\* looked at
DeleteMailbox(s) ==
    /\ pc[s] = "delete_mailbox"
    /\ \E ok \in Outcomes :
         LET c == cmd[s]
         IN /\ Spend(ok)
            /\ IF ~ok
               THEN /\ Callback(s, c, Result(TRUE, ""))
                    /\ mailboxes' = mailboxes
               ELSE /\ mailboxes' = [mailboxes EXCEPT ![c.mailbox.id].exists = FALSE]
                    /\ Goto(s, c, "delete_aggregate")
    /\ UNCHANGED <<messages, user, journal, nextId, selected, wake, out, ncmds,
                   allocLog, mutations>>

\* onDelete: messages.aggregate, the sum of the sizes of the mailbox's messages
DeleteAggregate(s) ==
    /\ pc[s] = "delete_aggregate"
    /\ \E ok \in Outcomes :
         LET c == cmd[s]
         IN /\ Spend(ok)
            /\ IF ~ok THEN Callback(s, c, Result(TRUE, ""))
               ELSE Goto(s, [c EXCEPT !.storageUsed = SumSizes(MessagesOf(c.mailbox.id))],
                         "delete_messages")
    /\ UNCHANGED <<mailboxes, messages, user, journal, nextId, selected, wake,
                   out, ncmds, allocLog, mutations>>

\* the documents a deleteMany removes: all that match, or when it fails any
\* of them
Removed(matching, ok) == IF ok THEN {matching} ELSE SUBSET matching

\* onDelete: messages.deleteMany of the mailbox's messages; removed is history
DeleteMessages(s) ==
    /\ pc[s] = "delete_messages"
    /\ \E ok \in Outcomes :
         \E gone \in Removed(MessagesOf(cmd[s].mailbox.id), ok) :
           LET c == [cmd[s] EXCEPT !.removed = gone]
           IN /\ Spend(ok)
              /\ messages' = messages \ gone
              /\ IF ~ok THEN Callback(s, c, Result(TRUE, ""))
                 ELSE IF c.storageUsed = 0 THEN Goto(s, c, "delete_journal")
                 ELSE Goto(s, c, "delete_quota")
    /\ UNCHANGED <<mailboxes, user, journal, nextId, selected, wake, out, ncmds,
                   allocLog, mutations>>

\* onDelete: users.findOneAndUpdate $inc storageUsed by -storageUsed, then done
\* whatever the outcome
DeleteQuota(s) ==
    /\ pc[s] = "delete_quota"
    /\ \E ok \in Outcomes :
         LET c == cmd[s]
         IN /\ Spend(ok)
            /\ user' = IF ok THEN [user EXCEPT !.storageUsed = @ - c.storageUsed]
                       ELSE user
            /\ Goto(s, c, "delete_journal")
    /\ UNCHANGED <<mailboxes, messages, journal, nextId, selected, wake, out,
                   ncmds, allocLog, mutations>>

\* onDelete's done: journal.deleteMany of the mailbox's entries, then the callback
DeleteJournal(s) ==
    /\ pc[s] = "delete_journal"
    /\ \E ok \in Outcomes :
         LET c == cmd[s]
             kept == SelectSeq(journal, LAMBDA e : e.mailbox # c.mailbox.id)
         IN /\ Spend(ok)
            /\ IF ~ok
               THEN /\ Callback(s, c, Result(TRUE, ""))
                    /\ journal' \in {journal, kept}
               ELSE /\ journal' = kept
                    /\ Callback(s, c, Result(FALSE, "OK"))
    /\ UNCHANGED <<mailboxes, messages, user, nextId, selected, wake, out, ncmds,
                   allocLog, mutations>>

\* ------------------------------------------------------------------- COPY
\* onCopy: findOne of the source mailbox
CopyStart(s) ==
    /\ Issue(s)
    /\ \E destination \in Paths, uids \in UidSets(s), ok \in Outcomes :
         LET c == [NewCmd(s, "COPY") EXCEPT !.destination = destination,
                                            !.messages = uids]
             mb == FindMailbox(c.path)
         IN /\ Spend(ok)
            /\ IF ~ok THEN Callback(s, c, Result(TRUE, ""))
               ELSE IF mb = NoMailbox THEN Callback(s, c, Result(FALSE, "NONEXISTENT"))
               ELSE Goto(s, [c EXCEPT !.mailbox = mailboxes[mb]], "copy_target")
    /\ UNCHANGED <<mailboxes, messages, user, journal, nextId, selected, wake,
                   out, allocLog, mutations>>

\* onCopy: findOne of the destination mailbox
CopyTarget(s) ==
    /\ pc[s] = "copy_target"
    /\ \E ok \in Outcomes :
         LET c == cmd[s]
             mb == FindMailbox(c.destination)
         IN /\ Spend(ok)
            /\ IF ~ok THEN Callback(s, c, Result(TRUE, ""))
               ELSE IF mb = NoMailbox THEN Callback(s, c, Result(FALSE, "TRYCREATE"))
               ELSE Goto(s, [c EXCEPT !.target = mailboxes[mb]], "copy_next")
    /\ UNCHANGED <<mailboxes, messages, user, journal, nextId, selected, wake,
                   out, ncmds, allocLog, mutations>>

\* onCopy's updateQuota(next): a call to users.findOneAndUpdate only when
\* something was copied; args is what next hands to callback, fire whether next
\* fires the destination first
CopyUpdateQuota(s, c, args, fire) ==
    IF c.count = 0
    THEN /\ Callback(s, c, args)
         /\ wake' = IF fire THEN Fire(wake, c.target.path) ELSE wake
    ELSE /\ Goto(s, [c EXCEPT !.args = args, !.fire = fire], "copy_quota")
         /\ wake' = wake

CopyData(c) == [Result(FALSE, "OK") EXCEPT !.uidValidity = c.target.uidValidity,
                                           !.sourceUid = c.sourceUid,
                                           !.destinationUid = c.destinationUid]

\* the source cursor: find({mailbox, uid: {$in: messages}}).sort uid ascending
CopyCursor(c) ==
    SortedByUid({m \in messages : m.mailbox = c.mailbox.id /\ m.uid \in c.messages})

\* onCopy processNext: cursor.next
CopyNext(s) ==
    /\ pc[s] = "copy_next"
    /\ \E ok \in (IF cmd[s].opened THEN {TRUE} ELSE Outcomes) :
         LET c0 == cmd[s]
             c == IF c0.opened THEN c0
                  ELSE [c0 EXCEPT !.opened = TRUE, !.cursor = CopyCursor(c0)]
         IN /\ Spend(ok)
            /\ IF ~ok THEN CopyUpdateQuota(s, c0, Result(TRUE, ""), FALSE)
               ELSE IF c.cursor = <<>> THEN CopyUpdateQuota(s, c, CopyData(c), TRUE)
               ELSE /\ Goto(s, [c EXCEPT !.message = Head(c.cursor),
                                         !.cursor = Tail(c.cursor),
                                         !.sourceUid = <<Head(c.cursor).uid>> \o @],
                            "copy_alloc")
                    /\ wake' = wake
    /\ UNCHANGED <<mailboxes, messages, user, journal, nextId, selected,
                   out, ncmds, allocLog, mutations>>

\* faulty allocators: the increment is lost; uidNext is recomputed from the
\* messages the mailbox still holds
FindAndKeepUidNext(mbs, id) == mbs

FindAndResetUidNext(mbs, id) ==
    [mbs EXCEPT ![id].uidNext = Max({m.uid : m \in MessagesOf(id)} \cup {0}) + 1]

\* mailboxes.findOneAndUpdate({_id: target._id}, {$inc: {uidNext: 1}}): the
\* document as it was before the increment
FindAndIncrementUidNext(mbs, id) == [mbs EXCEPT ![id].uidNext = @ + 1]

\* onCopy: the destination UID of the message at hand
CopyAlloc(s) ==
    /\ pc[s] = "copy_alloc"
    /\ \E ok \in Outcomes :
         LET c == cmd[s]
             id == c.target.id
         IN /\ Spend(ok)
            /\ IF ~ok
               THEN /\ CopyUpdateQuota(s, c, Result(TRUE, ""), FALSE)
                    /\ UNCHANGED <<mailboxes, nextId, allocLog>>
               ELSE IF ~mailboxes[id].exists
               THEN /\ CopyUpdateQuota(s, c, Result(FALSE, "TRYCREATE"), FALSE)
                    /\ UNCHANGED <<mailboxes, nextId, allocLog>>
               ELSE LET uidNext == mailboxes[id].uidNext
                    IN /\ mailboxes' = FindAndIncrementUidNext(mailboxes, id)
                       /\ allocLog' = [allocLog EXCEPT ![id] = Append(@, uidNext)]
                       /\ nextId' = nextId + 1
                       /\ Goto(s, [c EXCEPT !.destinationUid = <<uidNext>> \o @,
                                            !.message = [c.message EXCEPT
                                                           !.id = nextId,
                                                           !.mailbox = id,
                                                           !.uid = uidNext]],
                               "copy_insert")
                       /\ wake' = wake
    /\ UNCHANGED <<messages, user, journal, selected, out, ncmds, mutations>>

\* onCopy: messages.insertOne of the copy
CopyInsert(s) ==
    /\ pc[s] = "copy_insert"
    /\ \E ok \in Outcomes :
         LET c == cmd[s]
         IN /\ Spend(ok)
            /\ IF ~ok
               THEN /\ CopyUpdateQuota(s, c, Result(TRUE, ""), FALSE)
                    /\ UNCHANGED <<messages, mutations>>
               ELSE /\ messages' = messages \cup {c.message}
                    /\ mutations' = Append(mutations,
                           Mutation("EXISTS", c.message.mailbox, c.message.uid, s))
                    /\ Goto(s, [c EXCEPT !.count = @ + 1,
                                         !.storage = @ + c.message.size],
                            "copy_notify")
                    /\ wake' = wake
    /\ UNCHANGED <<mailboxes, user, journal, nextId, selected, out, ncmds,
                   allocLog>>

\* a faulty entry: it names the source message's uid
CopyNotifyEntrySourceUid(s, message) ==
    Entry("EXISTS", 0, Head(cmd[s].sourceUid), <<>>, message.id, s)

\* the entry onCopy hands to the notifier for a copied message
CopyNotifyEntry(s, message) == Entry("EXISTS", 0, message.uid, <<>>, message.id, s)

\* onCopy: notifier.addEntries for the destination, then processNext
CopyNotify(s) ==
    /\ pc[s] = "copy_notify"
    /\ LET c == cmd[s]
           entries == <<CopyNotifyEntry(s, c.message)>>
       IN /\ journal' = AddEntriesJournal(c.target.path, entries)
          /\ mailboxes' = AddEntriesMailboxes(c.target.path, entries)
          /\ messages' = AddEntriesMessages(c.target.path, entries)
          /\ Goto(s, c, "copy_next")
    /\ UNCHANGED <<user, nextId, selected, wake, out, ncmds, faults, allocLog,
                   mutations>>

\* onCopy updateQuota: users.findOneAndUpdate $inc storageUsed by copiedStorage,
\* then next() whatever the outcome
CopyQuota(s) ==
    /\ pc[s] = "copy_quota"
    /\ \E ok \in Outcomes :
         LET c == cmd[s]
         IN /\ Spend(ok)
            /\ user' = IF ok THEN [user EXCEPT !.storageUsed = @ + c.storage] ELSE user
            /\ Callback(s, c, c.args)
            /\ wake' = IF c.fire THEN Fire(wake, c.target.path) ELSE wake
    /\ UNCHANGED <<mailboxes, messages, journal, nextId, selected, out, ncmds,
                   allocLog, mutations>>

\* ---------------------------------------------------------------- EXPUNGE
\* onExpunge: findOne of the selected mailbox
ExpungeStart(s) ==
    /\ Issue(s)
    /\ \E silent \in {FALSE}, ok \in Outcomes :
         LET c == [NewCmd(s, "EXPUNGE") EXCEPT !.silent = silent]
             mb == FindMailbox(c.path)
         IN /\ Spend(ok)
            /\ IF ~ok THEN Callback(s, c, Result(TRUE, ""))
               ELSE IF mb = NoMailbox THEN Callback(s, c, Result(FALSE, "NONEXISTENT"))
               ELSE Goto(s, [c EXCEPT !.mailbox = mailboxes[mb]], "expunge_next")
    /\ UNCHANGED <<mailboxes, messages, user, journal, nextId, selected, wake,
                   out, allocLog, mutations>>

\* onExpunge's updateQuota(next): a call to users.findOneAndUpdate only when
\* something was deleted
ExpungeUpdateQuota(s, c, args, fire) ==
    IF c.count = 0
    THEN /\ Callback(s, c, args)
         /\ wake' = IF fire THEN Fire(wake, c.path) ELSE wake
    ELSE /\ Goto(s, [c EXCEPT !.args = args, !.fire = fire], "expunge_quota")
         /\ wake' = wake

\* a faulty cursor: every message of the mailbox
ExpungeCursorAll(c) == SortedByUid({m \in messages : m.mailbox = c.mailbox.id})

\* a faulty cursor: uid descending
ExpungeCursorDescending(c) ==
    LET docs == {m \in messages : m.mailbox = c.mailbox.id /\ m.deleted}
        uids == SortDesc({m.uid : m \in docs})
    IN [i \in 1..Len(uids) |-> CHOOSE m \in docs : m.uid = uids[i]]

\* the cursor: find({mailbox, deleted: true}).sort uid ascending
ExpungeCursor(c) ==
    SortedByUid({m \in messages : m.mailbox = c.mailbox.id /\ m.deleted})

\* onExpunge processNext: cursor.next, and the EXPUNGE response of the message
ExpungeNext(s) ==
    /\ pc[s] = "expunge_next"
    /\ \E ok \in (IF cmd[s].opened THEN {TRUE} ELSE Outcomes) :
         LET c0 == cmd[s]
             c == IF c0.opened THEN c0
                  ELSE [c0 EXCEPT !.opened = TRUE, !.cursor = ExpungeCursor(c0)]
         IN /\ Spend(ok)
            /\ IF ~ok
               THEN /\ ExpungeUpdateQuota(s, c0, Result(TRUE, ""), FALSE)
                    /\ UNCHANGED <<out, selected>>
               ELSE IF c.cursor = <<>>
               THEN /\ ExpungeUpdateQuota(s, c, Result(FALSE, "OK"), TRUE)
                    /\ UNCHANGED <<out, selected>>
               ELSE LET message == Head(c.cursor)
                    IN /\ IF c.silent THEN UNCHANGED <<out, selected>>
                          ELSE /\ out' = [out EXCEPT ![s] = @ \o ExpungeResponse(s, message.uid)]
                               /\ selected' = [selected EXCEPT ![s].uidList =
                                                 ExpungeFromList(@, message.uid)]
                       /\ Goto(s, [c EXCEPT !.message = message, !.cursor = Tail(c.cursor)],
                               "expunge_delete")
                       /\ wake' = wake
    /\ UNCHANGED <<mailboxes, messages, user, journal, nextId, ncmds, allocLog,
                   mutations>>

\* onExpunge: messages.deleteOne({_id}); the counters grow whenever the call
\* reports no error
ExpungeDelete(s) ==
    /\ pc[s] = "expunge_delete"
    /\ \E ok \in Outcomes :
         LET c == cmd[s]
             hit == {m \in messages : m.id = c.message.id}
         IN /\ Spend(ok)
            /\ IF ~ok
               THEN /\ ExpungeUpdateQuota(s, c, Result(TRUE, ""), FALSE)
                    /\ UNCHANGED <<messages, mutations>>
               ELSE /\ messages' = messages \ hit
                    /\ mutations' = IF hit = {} THEN mutations
                                    ELSE Append(mutations,
                                           Mutation("EXPUNGE", c.message.mailbox, c.message.uid, s))
                    /\ Goto(s, [c EXCEPT !.count = @ + 1,
                                         !.storage = @ + c.message.size],
                            "expunge_notify")
                    /\ wake' = wake
    /\ UNCHANGED <<mailboxes, user, journal, nextId, selected, out, ncmds,
                   allocLog>>

\* a faulty entry: no ignore
ExpungeNotifyEntryNoIgnore(s, message) ==
    Entry("EXPUNGE", 0, message.uid, <<>>, message.id, s)

\* the entry onExpunge hands to the notifier for a deleted message
ExpungeNotifyEntry(s, message) == Entry("EXPUNGE", s, message.uid, <<>>, message.id, s)

\* onExpunge: notifier.addEntries, then processNext
ExpungeNotify(s) ==
    /\ pc[s] = "expunge_notify"
    /\ LET c == cmd[s]
           entries == <<ExpungeNotifyEntry(s, c.message)>>
       IN /\ journal' = AddEntriesJournal(c.path, entries)
          /\ mailboxes' = AddEntriesMailboxes(c.path, entries)
          /\ messages' = AddEntriesMessages(c.path, entries)
          /\ Goto(s, c, "expunge_next")
    /\ UNCHANGED <<user, nextId, selected, wake, out, ncmds, faults, allocLog,
                   mutations>>

\* onExpunge updateQuota: users.findOneAndUpdate $inc storageUsed by
\* -deletedStorage, then next() whatever the outcome
ExpungeQuota(s) ==
    /\ pc[s] = "expunge_quota"
    /\ \E ok \in Outcomes :
         LET c == cmd[s]
         IN /\ Spend(ok)
            /\ user' = IF ok THEN [user EXCEPT !.storageUsed = @ - c.storage] ELSE user
            /\ Callback(s, c, c.args)
            /\ wake' = IF c.fire THEN Fire(wake, c.path) ELSE wake
    /\ UNCHANGED <<mailboxes, messages, journal, nextId, selected, out, ncmds,
                   allocLog, mutations>>

\* ----------------------------------------------------------------- APPEND
AppendFlagSets == {<<>>, <<Deleted>>}
AppendSizes == {4}

\* a faulty check: a message that fills the quota exactly is turned down
AppendStartAtQuota(s) ==
    /\ Issue(s)
    /\ \E path \in Paths, flags \in AppendFlagSets, size \in AppendSizes, ok \in Outcomes :
         LET c == [NewCmd(s, "APPEND") EXCEPT !.path = path, !.flags = flags,
                                              !.size = size]
         IN /\ Spend(ok)
            /\ IF ~ok THEN Callback(s, c, Result(TRUE, ""))
               ELSE IF user.quota # 0 /\ user.storageUsed + size >= user.quota
               THEN Callback(s, c, Result(FALSE, "OVERQUOTA"))
               ELSE Goto(s, c, "append_alloc")
    /\ UNCHANGED <<mailboxes, messages, user, journal, nextId, selected, wake,
                   out, allocLog, mutations>>

\* onAppend: users.findOne and the quota check on raw.length
AppendStart(s) ==
    /\ Issue(s)
    /\ \E path \in Paths, flags \in AppendFlagSets, size \in AppendSizes, ok \in Outcomes :
         LET c == [NewCmd(s, "APPEND") EXCEPT !.path = path, !.flags = flags,
                                              !.size = size]
         IN /\ Spend(ok)
            /\ IF ~ok THEN Callback(s, c, Result(TRUE, ""))
               ELSE IF user.quota # 0 /\ user.storageUsed + size > user.quota
               THEN Callback(s, c, Result(FALSE, "OVERQUOTA"))
               ELSE Goto(s, c, "append_alloc")
    /\ UNCHANGED <<mailboxes, messages, user, journal, nextId, selected, wake,
                   out, allocLog, mutations>>

\* messageHandler.add: the mailbox is resolved and uid = atomic_increment(uidNext)
AppendAlloc(s) ==
    /\ pc[s] = "append_alloc"
    /\ LET c == cmd[s]
           mb == FindMailbox(c.path)
       IN IF mb = NoMailbox
          THEN /\ Callback(s, c, Result(FALSE, "TRYCREATE"))
               /\ UNCHANGED <<mailboxes, nextId, allocLog>>
          ELSE /\ mailboxes' = FindAndIncrementUidNext(mailboxes, mb)
               /\ allocLog' = [allocLog EXCEPT ![mb] = Append(@, mailboxes[mb].uidNext)]
               /\ nextId' = nextId + 1
               /\ Goto(s, [c EXCEPT !.mailbox = mailboxes[mb],
                                    !.message =
                                       [id |-> nextId, mailbox |-> mb,
                                        uid |-> mailboxes[mb].uidNext, modseq |-> 0,
                                        flags |-> c.flags,
                                        seen |-> Includes(c.flags, Seen),
                                        flagged |-> Includes(c.flags, Flagged),
                                        deleted |-> Includes(c.flags, Deleted),
                                        size |-> c.size]],
                       "append_insert")
    /\ UNCHANGED <<messages, user, journal, selected, wake, out, ncmds, faults,
                   mutations>>

\* messageHandler.add: the message is inserted with
\* modseq = atomic_increment(modifyIndex)
AppendInsert(s) ==
    /\ pc[s] = "append_insert"
    /\ LET c == cmd[s]
           mb == c.message.mailbox
           message == [c.message EXCEPT !.modseq = mailboxes[mb].modifyIndex + 1]
       IN /\ mailboxes' = [mailboxes EXCEPT ![mb].modifyIndex = @ + 1]
          /\ messages' = messages \cup {message}
          /\ mutations' = Append(mutations, Mutation("EXISTS", mb, message.uid, s))
          /\ Goto(s, [c EXCEPT !.message = message], "append_quota")
    /\ UNCHANGED <<user, journal, nextId, selected, wake, out, ncmds, faults, allocLog>>

\* messageHandler.add: user.storageUsed += size
AppendQuota(s) ==
    /\ pc[s] = "append_quota"
    /\ user' = [user EXCEPT !.storageUsed = @ + cmd[s].message.size]
    /\ Goto(s, cmd[s], "append_notify")
    /\ UNCHANGED <<mailboxes, messages, journal, nextId, selected, wake, out, ncmds,
                   faults, allocLog, mutations>>

\* messageHandler.add: the EXISTS journal entry, the fire, and the result
\* (uid, uidValidity)
AppendNotify(s) ==
    /\ pc[s] = "append_notify"
    /\ LET c == cmd[s]
           entries == <<Entry("EXISTS", 0, c.message.uid, <<>>, c.message.id, s)>>
       IN /\ journal' = AddEntriesJournal(c.path, entries)
          /\ mailboxes' = AddEntriesMailboxes(c.path, entries)
          /\ messages' = AddEntriesMessages(c.path, entries)
          /\ wake' = Fire(wake, c.path)
          /\ Callback(s, c, [Result(FALSE, "OK") EXCEPT
                                !.uidValidity = c.mailbox.uidValidity,
                                !.destinationUid = <<c.message.uid>>])
    /\ UNCHANGED <<user, nextId, selected, out, ncmds, faults, allocLog, mutations>>

\* ------------------------------------------------------------------- MOVE
\* onMove, messageHandler.move: both mailboxes are resolved
MoveStart(s) ==
    /\ Issue(s)
    /\ \E destination \in Paths, uids \in UidSets(s) :
         LET c == [NewCmd(s, "MOVE") EXCEPT !.destination = destination,
                                            !.messages = uids]
             mb == FindMailbox(c.path)
             target == FindMailbox(destination)
         IN IF target = NoMailbox THEN Callback(s, c, Result(FALSE, "TRYCREATE"))
            ELSE IF mb = NoMailbox THEN Callback(s, c, Result(FALSE, "NONEXISTENT"))
            ELSE Goto(s, [c EXCEPT !.mailbox = mailboxes[mb],
                                   !.target = mailboxes[target]], "move_next")
    /\ UNCHANGED <<mailboxes, messages, user, journal, nextId, selected, wake,
                   out, faults, allocLog, mutations>>

\* messageHandler.move: the next source message in ascending uid order gets a
\* fresh destination uid; after the last one the client is sent an EXPUNGE for
\* each source uid in ascending order and the mailboxes are fired
MoveNext(s) ==
    /\ pc[s] = "move_next"
    /\ LET c0 == cmd[s]
           c == IF c0.opened THEN c0
                ELSE [c0 EXCEPT !.opened = TRUE, !.cursor = CopyCursor(c0)]
           id == c.target.id
       IN IF c.cursor = <<>>
          THEN LET gone == [i \in 1..Len(c.sourceUid) |->
                              LET uid == c.sourceUid[Len(c.sourceUid) + 1 - i]
                                  before == SelectSeq(c.pre, LAMBDA u :
                                              \A j \in 1..(i-1) :
                                                 u # c.sourceUid[Len(c.sourceUid) + 1 - j])
                              IN Resp("EXPUNGE", Msn(before, uid), uid, 0, <<>>, 0, "")]
               IN /\ out' = [out EXCEPT ![s] = @ \o gone]
                  /\ selected' = [selected EXCEPT ![s].uidList =
                                    SelectSeq(@, LAMBDA u : u \notin Range(c.sourceUid))]
                  /\ wake' = Fire(Fire(wake, c.path), c.target.path)
                  /\ Callback(s, c, CopyData(c))
                  /\ UNCHANGED <<mailboxes, allocLog>>
          ELSE /\ mailboxes' = FindAndIncrementUidNext(mailboxes, id)
               /\ allocLog' = [allocLog EXCEPT ![id] = Append(@, mailboxes[id].uidNext)]
               /\ Goto(s, [c EXCEPT !.message = Head(c.cursor),
                                    !.cursor = Tail(c.cursor),
                                    !.sourceUid = <<Head(c.cursor).uid>> \o @,
                                    !.destinationUid = <<mailboxes[id].uidNext>> \o @],
                       "move_write")
               /\ UNCHANGED <<out, selected, wake>>
    /\ UNCHANGED <<messages, user, journal, nextId, ncmds, faults, mutations>>

\* messageHandler.move: the message document is rewritten in place (mailbox,
\* uid, modseq); quota is unchanged
MoveWrite(s) ==
    /\ pc[s] = "move_write"
    /\ LET c == cmd[s]
           id == c.target.id
           hit == {m \in messages : m.id = c.message.id}
           moved == [c.message EXCEPT !.mailbox = id, !.uid = Head(c.destinationUid),
                                      !.modseq = mailboxes[id].modifyIndex + 1]
       IN IF hit = {}
          THEN /\ Goto(s, c, "move_next")
               /\ UNCHANGED <<mailboxes, messages, mutations>>
          ELSE /\ mailboxes' = [mailboxes EXCEPT ![id].modifyIndex = @ + 1]
               /\ messages' = (messages \ hit) \cup {moved}
               /\ mutations' = mutations \o
                     <<Mutation("EXPUNGE", c.message.mailbox, c.message.uid, s),
                       Mutation("EXISTS", id, moved.uid, s)>>
               /\ Goto(s, [c EXCEPT !.message = moved], "move_notify")
    /\ UNCHANGED <<user, journal, nextId, selected, wake, out, ncmds, faults, allocLog>>

\* messageHandler.move: the EXPUNGE entry of the source and the EXISTS entry
\* of the destination
MoveNotify(s) ==
    /\ pc[s] = "move_notify"
    /\ LET c == cmd[s]
           gone == <<Entry("EXPUNGE", s, Head(c.sourceUid), <<>>, 0, s)>>
           come == <<Entry("EXISTS", 0, c.message.uid, <<>>, c.message.id, s)>>
           mb == c.mailbox.id
           id == c.target.id
           base == [i \in MailboxIds |-> mailboxes[i].modifyIndex]
           j1 == journal \o Stamp(gone, mb, base[mb])
           b2 == IF id = mb THEN base[id] + 1 ELSE base[id]
       IN /\ journal' = j1 \o Stamp(come, id, b2)
          /\ mailboxes' = [i \in MailboxIds |->
                             [mailboxes[i] EXCEPT !.modifyIndex =
                                @ + (IF i = mb THEN 1 ELSE 0) + (IF i = id THEN 1 ELSE 0)]]
          /\ messages' = {IF m.id = c.message.id THEN [m EXCEPT !.modseq = b2 + 1]
                          ELSE m : m \in messages}
          /\ Goto(s, c, "move_next")
    /\ UNCHANGED <<user, nextId, selected, wake, out, ncmds, faults, allocLog,
                   mutations>>

\* ------------------------------------------------------------------ STORE
\* an update document of bulkWrite: an operator on the flags array and the
\* fields of its $set
FlagsUpdate(op, flags, set) == [op |-> op, flags |-> flags, set |-> set]

NoUpdate == FlagsUpdate("", <<>>, {})

\* $addToSet: {flags: {$each: new}}
RECURSIVE AddToSet(_, _)
AddToSet(flags, new) ==
    IF new = <<>> THEN flags
    ELSE AddToSet(IF Includes(flags, Head(new)) THEN flags ELSE Append(flags, Head(new)),
                  Tail(new))

\* $pull: {flags: {$in: old}}
Pull(flags, old) == SelectSeq(flags, LAMBDA f : ~Includes(old, f))

SetField(set, field, current) ==
    IF \E p \in set : p[1] = field
    THEN (CHOOSE p \in set : p[1] = field)[2]
    ELSE current

\* updateOne({_id}, update) applied to the stored document
ApplyUpdate(m, update) ==
    [m EXCEPT !.flags = CASE update.op = "$set" -> update.flags
                          [] update.op = "$addToSet" -> AddToSet(@, update.flags)
                          [] update.op = "$pull" -> Pull(@, update.flags)
                          [] OTHER -> @,
              !.seen = SetField(update.set, "seen", @),
              !.flagged = SetField(update.set, "flagged", @),
              !.deleted = SetField(update.set, "deleted", @)]

\* flagsupdate.$set of the add and remove cases: each of the three assignments
\* replaces the object the one before it built
LastSystemFlag(flags, value) ==
    IF Includes(flags, Deleted) THEN {<<"deleted", value>>}
    ELSE IF Includes(flags, Flagged) THEN {<<"flagged", value>>}
    ELSE IF Includes(flags, Seen) THEN {<<"seen", value>>}
    ELSE {}

\* onStore, case 'set': the message's in-memory flags, whether it counts as
\* updated, and the update document
StoreActionSet(flags, value) ==
    LET existingFlags == LowerAll(flags)
        updated == \/ Len(existingFlags) # Len(value)
                   \/ \E i \in 1..Len(value) : ~Includes(existingFlags, Lower(value[i]))
    IN [flags |-> value, updated |-> updated,
        update |-> IF updated
                   THEN FlagsUpdate("$set", value,
                                    {<<"seen", Includes(value, Seen)>>,
                                     <<"flagged", Includes(value, Flagged)>>,
                                     <<"deleted", Includes(value, Deleted)>>})
                   ELSE NoUpdate]

\* onStore, case 'add'
StoreActionAdd(flags, value) ==
    LET existingFlags == LowerAll(flags)
        newFlags == SelectSeq(value, LAMBDA f : ~Includes(existingFlags, Lower(f)))
        updated == newFlags # <<>>
    IN [flags |-> flags \o newFlags, updated |-> updated,
        update |-> IF updated
                   THEN FlagsUpdate("$addToSet", newFlags, LastSystemFlag(newFlags, TRUE))
                   ELSE NoUpdate]

\* onStore, case 'remove'
StoreActionRemove(flags, value) ==
    LET flagsUpdates == LowerAll(value)
        oldFlags == SelectSeq(flags, LAMBDA f : Includes(flagsUpdates, Lower(f)))
        updated == oldFlags # <<>>
    IN [flags |-> SelectSeq(flags, LAMBDA f : ~Includes(flagsUpdates, Lower(f))),
        updated |-> updated,
        update |-> IF updated
                   THEN FlagsUpdate("$pull", oldFlags, LastSystemFlag(oldFlags, FALSE))
                   ELSE NoUpdate]

StoreAction(action, flags, value) ==
    CASE action = "set" -> StoreActionSet(flags, value)
      [] action = "add" -> StoreActionAdd(flags, value)
      [] action = "remove" -> StoreActionRemove(flags, value)

\* bulkWrite(updateEntries): the stored documents after the writes in applied
BulkWrite(docs, updateEntries, applied) ==
    {LET hit == {i \in applied : updateEntries[i].id = m.id}
     IN IF hit = {} THEN m ELSE ApplyUpdate(m, updateEntries[Min(hit)].update)
     : m \in docs}

\* history: the writes of a bulkWrite that changed a stored document
BulkMutations(updateEntries, applied, by) ==
    LET changed == {i \in applied : \E m \in messages :
                       /\ m.id = updateEntries[i].id
                       /\ ApplyUpdate(m, updateEntries[i].update) # m}
        order == SortAsc(changed)
    IN [k \in 1..Len(order) |->
          LET m == CHOOSE x \in messages : x.id = updateEntries[order[k]].id
          IN Mutation("FETCH", m.mailbox, m.uid, by)]

\* the writes a bulkWrite applies: all of them, or when it fails any proper subset
Applied(updateEntries, ok) ==
    IF ok THEN {DOMAIN updateEntries}
    ELSE (SUBSET DOMAIN updateEntries) \ {DOMAIN updateEntries}

\* a faulty entry: no ignore
StoreNotifyEntryNoIgnore(s, message) ==
    Entry("FETCH", 0, message.uid, message.flags, message.id, s)

\* the entry onStore hands to the notifier for an updated message
StoreNotifyEntry(s, message) ==
    Entry("FETCH", s, message.uid, message.flags, message.id, s)

\* the cursor of onStore: the requested uids, narrowed by unchangedSince when
\* update.unchangedSince is truthy
StoreCursor(c) ==
    SortedByUid({m \in messages :
                   /\ m.mailbox = c.mailbox.id
                   /\ m.uid \in c.messages
                   /\ (c.unchangedSince > 0 => m.modseq <= c.unchangedSince)})

\* onStore processNext over the rows the cursor holds, up to the row that fills
\* a batch: the FETCH responses written, the writes and the entries queued
RECURSIVE StoreScan(_, _, _)
StoreScan(s, c, written) ==
    IF c.cursor = <<>> \/ Len(c.updateEntries) >= BULK_BATCH_SIZE
    THEN [c |-> c, written |-> written]
    ELSE LET row == Head(c.cursor)
             r == StoreAction(c.action, row.flags, c.value)
             message == [row EXCEPT !.flags = r.flags]
             w == IF c.silent THEN written
                  ELSE written \o FetchResponse(s, message, c.isUid)
         IN StoreScan(s,
               [c EXCEPT !.cursor = Tail(@),
                         !.updateEntries = IF r.updated
                                           THEN Append(@, [id |-> row.id, update |-> r.update])
                                           ELSE @,
                         !.notifyEntries = IF r.updated
                                           THEN Append(@, StoreNotifyEntry(s, message))
                                           ELSE @],
               w)

MAILBOX_FLAGS_LIMIT == 100

SystemFlags == <<"\\Answered", Flagged, "\\Draft", Deleted, Seen>>

\* server.updateMailboxFlags: the keywords of the update the mailbox document
\* handed in does not list yet
RECURSIVE NewMailboxFlags(_, _, _)
NewMailboxFlags(mailboxFlags, value, newFlags) ==
    IF value = <<>> THEN newFlags
    ELSE NewMailboxFlags(mailboxFlags, Tail(value),
            IF Len(mailboxFlags) + Len(newFlags) >= MAILBOX_FLAGS_LIMIT THEN newFlags
            ELSE IF ~Includes(mailboxFlags, Lower(Head(value)))
                 THEN Append(newFlags, Head(value))
                 ELSE newFlags)

UpdateMailboxFlagsNew(c) ==
    IF c.action = "remove" THEN <<>>
    ELSE NewMailboxFlags(LowerAll(SystemFlags \o c.mailbox.flags), c.value, <<>>)

\* onStore: findOne of the selected mailbox
StoreStartWith(s, updates) ==
    /\ Issue(s)
    /\ \E update \in updates, uids \in UidSets(s), ok \in Outcomes :
         LET c == [NewCmd(s, "STORE") EXCEPT !.action = update.action,
                      !.value = update.value, !.silent = update.silent,
                      !.isUid = update.isUid,
                      !.unchangedSince = update.unchangedSince, !.messages = uids,
                      !.before = messages]
             mb == FindMailbox(c.path)
         IN /\ Spend(ok)
            /\ IF ~ok THEN Callback(s, c, Result(TRUE, ""))
               ELSE IF mb = NoMailbox THEN Callback(s, c, Result(FALSE, "NONEXISTENT"))
               ELSE Goto(s, [c EXCEPT !.mailbox = mailboxes[mb]], "store_next")
    /\ UNCHANGED <<mailboxes, messages, user, journal, nextId, selected, wake,
                   out, allocLog, mutations>>

\* onStore's done(...args) once nothing is left to write: the fire, then the
\* callback, through updateMailboxFlags when args carries no error
StoreFinish(s, c, args) ==
    /\ wake' = Fire(wake, c.path)
    /\ IF args.err \/ UpdateMailboxFlagsNew(c) = <<>>
       THEN Callback(s, c, args)
       ELSE Goto(s, [c EXCEPT !.args = args], "store_mailbox_flags")

\* onStore's done(...args)
StoreDone(s, c, args) ==
    IF c.updateEntries # <<>>
    THEN /\ Goto(s, [c EXCEPT !.args = args], "store_done_bulk")
         /\ wake' = wake
    ELSE StoreFinish(s, c, args)

\* onStore processNext: cursor.next, the rows up to a full batch
StoreNext(s) ==
    /\ pc[s] = "store_next"
    /\ \E ok \in (IF cmd[s].opened THEN {TRUE} ELSE Outcomes) :
         LET c0 == cmd[s]
             c1 == IF c0.opened THEN c0
                   ELSE [c0 EXCEPT !.opened = TRUE, !.cursor = StoreCursor(c0)]
             scan == StoreScan(s, c1, <<>>)
             c == scan.c
         IN /\ Spend(ok)
            /\ IF ~ok
               THEN /\ StoreDone(s, c0, Result(TRUE, ""))
                    /\ out' = out
               ELSE /\ out' = [out EXCEPT ![s] = @ \o scan.written]
                    /\ IF Len(c.updateEntries) >= BULK_BATCH_SIZE
                       THEN /\ Goto(s, c, "store_bulk")
                            /\ wake' = wake
                       ELSE StoreDone(s, c, Result(FALSE, "OK"))
    /\ UNCHANGED <<mailboxes, messages, user, journal, nextId, selected, ncmds,
                   allocLog, mutations>>

\* onStore: the bulkWrite of a full batch; an error ends the command
StoreBulk(s) ==
    /\ pc[s] = "store_bulk"
    /\ \E ok \in Outcomes :
         \E applied \in Applied(cmd[s].updateEntries, ok) :
           LET c == [cmd[s] EXCEPT !.bulkError = @ \/ ~ok]
           IN /\ Spend(ok)
              /\ messages' = BulkWrite(messages, c.updateEntries, applied)
              /\ mutations' = mutations \o BulkMutations(c.updateEntries, applied, s)
              /\ IF ok
                 THEN /\ Goto(s, [c EXCEPT !.updateEntries = <<>>], "store_notify")
                      /\ wake' = wake
                 ELSE StoreDone(s, [c EXCEPT !.updateEntries = <<>>], Result(TRUE, ""))
    /\ UNCHANGED <<mailboxes, user, journal, nextId, selected, out, ncmds, allocLog>>

\* onStore: notifier.addEntries for a full batch, the fire, then processNext
StoreNotify(s) ==
    /\ pc[s] = "store_notify"
    /\ LET c == cmd[s]
       IN /\ journal' = AddEntriesJournal(c.path, c.notifyEntries)
          /\ mailboxes' = AddEntriesMailboxes(c.path, c.notifyEntries)
          /\ messages' = AddEntriesMessages(c.path, c.notifyEntries)
          /\ wake' = Fire(wake, c.path)
          /\ Goto(s, [c EXCEPT !.notifyEntries = <<>>], "store_next")
    /\ UNCHANGED <<user, nextId, selected, out, ncmds, faults, allocLog, mutations>>

\* onStore's done: the bulkWrite of the last batch; its error is not looked at
StoreDoneBulk(s) ==
    /\ pc[s] = "store_done_bulk"
    /\ \E ok \in Outcomes :
         \E applied \in Applied(cmd[s].updateEntries, ok) :
           LET c == [cmd[s] EXCEPT !.bulkError = @ \/ ~ok]
           IN /\ Spend(ok)
              /\ messages' = BulkWrite(messages, c.updateEntries, applied)
              /\ mutations' = mutations \o BulkMutations(c.updateEntries, applied, s)
              /\ Goto(s, [c EXCEPT !.updateEntries = <<>>], "store_done_notify")
    /\ UNCHANGED <<mailboxes, user, journal, nextId, selected, wake, out, ncmds,
                   allocLog>>

\* a faulty done: the fire and the callback without the append of the last batch
StoreDoneNotifyUnjournaled(s) ==
    /\ pc[s] = "store_done_notify"
    /\ LET c == cmd[s]
       IN StoreFinish(s, [c EXCEPT !.notifyEntries = <<>>], c.args)
    /\ UNCHANGED <<mailboxes, messages, journal, user, nextId, selected, out, ncmds,
                   faults, allocLog, mutations>>

\* onStore's done: notifier.addEntries for the last batch, the fire, the callback
StoreDoneNotify(s) ==
    /\ pc[s] = "store_done_notify"
    /\ LET c == cmd[s]
       IN /\ journal' = AddEntriesJournal(c.path, c.notifyEntries)
          /\ mailboxes' = AddEntriesMailboxes(c.path, c.notifyEntries)
          /\ messages' = AddEntriesMessages(c.path, c.notifyEntries)
          /\ StoreFinish(s, [c EXCEPT !.notifyEntries = <<>>], c.args)
    /\ UNCHANGED <<user, nextId, selected, out, ncmds, faults, allocLog, mutations>>

\* server.updateMailboxFlags: mailboxes.findOneAndUpdate $addToSet of the new
\* keywords, then the callback whatever the outcome
StoreMailboxFlags(s) ==
    /\ pc[s] = "store_mailbox_flags"
    /\ \E ok \in Outcomes :
         LET c == cmd[s]
             id == c.mailbox.id
         IN /\ Spend(ok)
            /\ mailboxes' = IF ok /\ mailboxes[id].exists
                            THEN [mailboxes EXCEPT ![id].flags =
                                     AddToSet(@, UpdateMailboxFlagsNew(c))]
                            ELSE mailboxes
            /\ Callback(s, c, c.args)
    /\ UNCHANGED <<messages, user, journal, nextId, selected, wake, out, ncmds,
                   allocLog, mutations>>

\* a faulty cursor: changedSince is not looked at
FetchCursorUnfiltered(c) ==
    SortedByUid({m \in messages : m.mailbox = c.mailbox.id /\ m.uid \in c.messages})

\* ------------------------------------------------------------------ FETCH
\* the cursor of onFetch: the requested uids, narrowed by changedSince when
\* options.changedSince is truthy
FetchCursor(c) ==
    SortedByUid({m \in messages :
                   /\ m.mailbox = c.mailbox.id
                   /\ m.uid \in c.messages
                   /\ (c.changedSince > 0 => m.modseq > c.changedSince)})

\* the entry onFetch hands to the notifier for a message it marked as seen
FetchNotifyEntry(s, message) ==
    Entry("FETCH", s, message.uid, message.flags, message.id, s)

\* onFetch processNext over the rows the cursor holds, up to the row that fills
\* a batch
RECURSIVE FetchScan(_, _, _)
FetchScan(s, c, written) ==
    IF c.cursor = <<>> \/ Len(c.updateEntries) >= BULK_BATCH_SIZE
    THEN [c |-> c, written |-> written]
    ELSE LET row == Head(c.cursor)
             markAsSeen == c.markAsSeen /\ ~Includes(row.flags, Seen)
             message == IF markAsSeen THEN [row EXCEPT !.flags = <<Seen>> \o @] ELSE row
         IN FetchScan(s,
               [c EXCEPT !.cursor = Tail(@),
                         !.isUpdated = @ \/ markAsSeen,
                         !.updateEntries =
                             IF markAsSeen
                             THEN Append(@, [id |-> row.id,
                                             update |-> FlagsUpdate("$addToSet", <<Seen>>,
                                                                    {<<"seen", TRUE>>})])
                             ELSE @,
                         !.notifyEntries = IF markAsSeen
                                           THEN Append(@, FetchNotifyEntry(s, message))
                                           ELSE @],
               written \o FetchResponse(s, message, TRUE))

\* onFetch: findOne of the selected mailbox
FetchStartWith(s, marks, since) ==
    /\ Issue(s)
    /\ \E markAsSeen \in marks, changedSince \in since,
          uids \in UidSets(s), ok \in Outcomes :
         LET c == [NewCmd(s, "FETCH") EXCEPT !.markAsSeen = markAsSeen,
                      !.changedSince = changedSince, !.messages = uids]
             mb == FindMailbox(c.path)
         IN /\ Spend(ok)
            /\ IF ~ok THEN Callback(s, c, Result(TRUE, ""))
               ELSE IF mb = NoMailbox THEN Callback(s, c, Result(FALSE, "NONEXISTENT"))
               ELSE Goto(s, [c EXCEPT !.mailbox = mailboxes[mb]], "fetch_next")
    /\ UNCHANGED <<mailboxes, messages, user, journal, nextId, selected, wake,
                   out, allocLog, mutations>>

\* onFetch's done(...args)
FetchDone(s, c, args) ==
    IF c.updateEntries # <<>>
    THEN /\ Goto(s, [c EXCEPT !.args = args], "fetch_done_bulk")
         /\ wake' = wake
    ELSE /\ wake' = IF c.isUpdated THEN Fire(wake, c.path) ELSE wake
         /\ Callback(s, c, args)

\* onFetch processNext: cursor.next, the rows up to a full batch
FetchNext(s) ==
    /\ pc[s] = "fetch_next"
    /\ \E ok \in (IF cmd[s].opened THEN {TRUE} ELSE Outcomes) :
         LET c0 == cmd[s]
             c1 == IF c0.opened THEN c0
                   ELSE [c0 EXCEPT !.opened = TRUE, !.cursor = FetchCursor(c0)]
             scan == FetchScan(s, c1, <<>>)
             c == scan.c
         IN /\ Spend(ok)
            /\ IF ~ok
               THEN /\ FetchDone(s, c0, Result(TRUE, ""))
                    /\ out' = out
               ELSE /\ out' = [out EXCEPT ![s] = @ \o scan.written]
                    /\ IF Len(c.updateEntries) >= BULK_BATCH_SIZE
                       THEN /\ Goto(s, c, "fetch_bulk")
                            /\ wake' = wake
                       ELSE FetchDone(s, c, Result(FALSE, "OK"))
    /\ UNCHANGED <<mailboxes, messages, user, journal, nextId, selected, ncmds,
                   allocLog, mutations>>

\* onFetch: the bulkWrite of a full batch; an error ends the command
FetchBulk(s) ==
    /\ pc[s] = "fetch_bulk"
    /\ \E ok \in Outcomes :
         \E applied \in Applied(cmd[s].updateEntries, ok) :
           LET c == [cmd[s] EXCEPT !.bulkError = @ \/ ~ok]
           IN /\ Spend(ok)
              /\ messages' = BulkWrite(messages, c.updateEntries, applied)
              /\ mutations' = mutations \o BulkMutations(c.updateEntries, applied, s)
              /\ IF ok
                 THEN /\ Goto(s, [c EXCEPT !.updateEntries = <<>>], "fetch_notify")
                      /\ wake' = wake
                 ELSE FetchDone(s, [c EXCEPT !.updateEntries = <<>>], Result(TRUE, ""))
    /\ UNCHANGED <<mailboxes, user, journal, nextId, selected, out, ncmds, allocLog>>

\* onFetch: notifier.addEntries for a full batch, the fire, then processNext
FetchNotify(s) ==
    /\ pc[s] = "fetch_notify"
    /\ LET c == cmd[s]
       IN /\ journal' = AddEntriesJournal(c.path, c.notifyEntries)
          /\ mailboxes' = AddEntriesMailboxes(c.path, c.notifyEntries)
          /\ messages' = AddEntriesMessages(c.path, c.notifyEntries)
          /\ wake' = Fire(wake, c.path)
          /\ Goto(s, [c EXCEPT !.notifyEntries = <<>>], "fetch_next")
    /\ UNCHANGED <<user, nextId, selected, out, ncmds, faults, allocLog, mutations>>

\* onFetch's done: the bulkWrite of the last batch; its error is not looked at
FetchDoneBulk(s) ==
    /\ pc[s] = "fetch_done_bulk"
    /\ \E ok \in Outcomes :
         \E applied \in Applied(cmd[s].updateEntries, ok) :
           LET c == [cmd[s] EXCEPT !.bulkError = @ \/ ~ok]
           IN /\ Spend(ok)
              /\ messages' = BulkWrite(messages, c.updateEntries, applied)
              /\ mutations' = mutations \o BulkMutations(c.updateEntries, applied, s)
              /\ Goto(s, [c EXCEPT !.updateEntries = <<>>], "fetch_done_notify")
    /\ UNCHANGED <<mailboxes, user, journal, nextId, selected, wake, out, ncmds,
                   allocLog>>

\* onFetch's done: notifier.addEntries for the last batch, the fire, the callback
FetchDoneNotify(s) ==
    /\ pc[s] = "fetch_done_notify"
    /\ LET c == cmd[s]
       IN /\ journal' = AddEntriesJournal(c.path, c.notifyEntries)
          /\ mailboxes' = AddEntriesMailboxes(c.path, c.notifyEntries)
          /\ messages' = AddEntriesMessages(c.path, c.notifyEntries)
          /\ wake' = Fire(wake, c.path)
          /\ Callback(s, [c EXCEPT !.notifyEntries = <<>>], c.args)
    /\ UNCHANGED <<user, nextId, selected, out, ncmds, faults, allocLog, mutations>>

\* ------------------------------------------------------------------- Init
InitMailboxes ==
    [id \in MailboxIds |->
       IF id = 1
       THEN [id |-> 1, exists |-> TRUE, path |-> "INBOX", uidValidity |-> 100,
             uidNext |-> 3, modifyIndex |-> 2, flags |-> <<>>,
             subscribed |-> TRUE, specialUse |-> ""]
       ELSE IF id = 2
       THEN [id |-> 2, exists |-> TRUE, path |-> "Archive", uidValidity |-> 200,
             uidNext |-> 1, modifyIndex |-> 0, flags |-> <<>>,
             subscribed |-> TRUE, specialUse |-> ""]
       ELSE NoMailboxDoc]

InitMessages ==
    {[id |-> 1, mailbox |-> 1, uid |-> 1, modseq |-> 1, flags |-> <<Deleted>>,
      seen |-> FALSE, flagged |-> FALSE, deleted |-> TRUE, size |-> 1],
     [id |-> 2, mailbox |-> 1, uid |-> 2, modseq |-> 2, flags |-> <<>>,
      seen |-> FALSE, flagged |-> FALSE, deleted |-> FALSE, size |-> 2]}

\* the session state SELECT leaves: the uids ascending, HIGHESTMODSEQ
SelectFrom(path, mbs, docs) ==
    LET mb == CHOOSE id \in MailboxIds : mbs[id].path = path
    IN [path |-> path, mailbox |-> mb,
        uidList |-> SortAsc({m.uid : m \in {x \in docs : x.mailbox = mb}}),
        modseq |-> mbs[mb].modifyIndex]

Select(path) == SelectFrom(path, InitMailboxes, InitMessages)

InitSessions ==
    /\ journal = <<>>
    /\ nextId = 10
    /\ wake = [s \in Sessions |-> FALSE]
    /\ out = [s \in Sessions |-> <<>>]
    /\ pc = [s \in Sessions |-> "idle"]
    /\ cmd = [s \in Sessions |-> IdleCmd]
    /\ ncmds = [s \in Sessions |-> 0]
    /\ allocLog = [id \in MailboxIds |-> <<>>]
    /\ mutations = <<>>

Init ==
    /\ InitSessions
    /\ mailboxes = InitMailboxes
    /\ messages = InitMessages
    /\ selected \in [Sessions -> {Select("INBOX"), Select("Archive")}]
    /\ user = [quota |-> 0, storageUsed |-> SumSizes(InitMessages)]
    /\ faults = MaxFaults

Next ==
    \E s \in Sessions :
        \/ CopyStart(s) \/ CopyTarget(s) \/ CopyNext(s) \/ CopyAlloc(s)
        \/ CopyInsert(s) \/ CopyNotify(s) \/ CopyQuota(s)
        \/ ExpungeStart(s) \/ ExpungeNext(s) \/ ExpungeDelete(s)
        \/ ExpungeNotify(s) \/ ExpungeQuota(s)
        \/ AppendStart(s) \/ AppendAlloc(s) \/ AppendInsert(s)
        \/ AppendQuota(s) \/ AppendNotify(s)
        \/ MoveStart(s) \/ MoveNext(s) \/ MoveWrite(s) \/ MoveNotify(s)
        \/ Flush(s)

Spec == Init /\ [][Next]_vars

\* ------------------------------------------- STORE and FETCH of two sessions
\* the update of a STORE: absent unchangedSince is -1
Update(action, value, silent, isUid, unchangedSince) ==
    [action |-> action, value |-> value, silent |-> silent, isUid |-> isUid,
     unchangedSince |-> unchangedSince]

StoreUpdates ==
    {Update("add", <<Seen>>, FALSE, TRUE, -1),
     Update("add", <<Seen, Deleted>>, FALSE, FALSE, -1),
     Update("remove", <<Seen, Deleted>>, TRUE, FALSE, -1),
     Update("set", <<"KW">>, FALSE, TRUE, -1),
     Update("add", <<Flagged>>, FALSE, TRUE, 0),
     Update("add", <<Flagged>>, FALSE, TRUE, 1)}

StoreStart(s) == StoreStartWith(s, StoreUpdates)

FetchStart(s) == FetchStartWith(s, {FALSE, TRUE}, {0, 1})

NextStore ==
    \E s \in Sessions :
        \/ StoreStart(s) \/ StoreNext(s) \/ StoreBulk(s) \/ StoreNotify(s)
        \/ StoreDoneBulk(s) \/ StoreDoneNotify(s) \/ StoreMailboxFlags(s)
        \/ FetchStart(s) \/ FetchNext(s) \/ FetchBulk(s) \/ FetchNotify(s)
        \/ FetchDoneBulk(s) \/ FetchDoneNotify(s)
        \/ Flush(s)

SpecStore == Init /\ [][NextStore]_vars

\* ------------------------------- STORE, FETCH and EXPUNGE of two sessions
NotifyUpdates ==
    {Update("add", <<Seen>>, FALSE, TRUE, -1),
     Update("add", <<Deleted>>, TRUE, FALSE, -1)}

StoreStartNotify(s) == StoreStartWith(s, NotifyUpdates)

FetchStartNotify(s) == FetchStartWith(s, {TRUE}, {0})

NextNotify ==
    \E s \in Sessions :
        \/ StoreStartNotify(s) \/ StoreNext(s) \/ StoreBulk(s) \/ StoreNotify(s)
        \/ StoreDoneBulk(s) \/ StoreDoneNotify(s)
        \/ FetchStartNotify(s) \/ FetchNext(s) \/ FetchBulk(s) \/ FetchNotify(s)
        \/ FetchDoneBulk(s) \/ FetchDoneNotify(s)
        \/ ExpungeStart(s) \/ ExpungeNext(s) \/ ExpungeDelete(s)
        \/ ExpungeNotify(s) \/ ExpungeQuota(s)
        \/ Flush(s)

SpecNotify == Init /\ [][NextNotify]_vars

\* ------------------------------ EXPUNGE of a mailbox with two \Deleted messages
ExpungeMailboxes == [InitMailboxes EXCEPT ![1].uidNext = 4, ![1].modifyIndex = 3]

ExpungeMessages ==
    InitMessages \cup
    {[id |-> 3, mailbox |-> 1, uid |-> 3, modseq |-> 3, flags |-> <<Deleted>>,
      seen |-> FALSE, flagged |-> FALSE, deleted |-> TRUE, size |-> 3]}

InitExpunge ==
    /\ InitSessions
    /\ mailboxes = ExpungeMailboxes
    /\ messages = ExpungeMessages
    /\ selected \in [Sessions -> {SelectFrom("INBOX", ExpungeMailboxes, ExpungeMessages)}]
    /\ user = [quota |-> 0, storageUsed |-> SumSizes(ExpungeMessages)]
    /\ faults = MaxFaults

NextExpunge ==
    \E s \in Sessions :
        \/ ExpungeStart(s) \/ ExpungeNext(s) \/ ExpungeDelete(s)
        \/ ExpungeNotify(s) \/ ExpungeQuota(s)
        \/ Flush(s)

SpecExpunge == InitExpunge /\ [][NextExpunge]_vars

\* ------------------------------------------------------------- properties
Idle(s) == pc[s] = "idle"

Quiescent == \A s \in Sessions : Idle(s)

InitUids(mb) == {m.uid : m \in {x \in InitMessages : x.mailbox = mb}}

StrictlyIncreasing(seq) == \A i, j \in 1..Len(seq) : i < j => seq[i] < seq[j]

Count(seq, P(_)) == Cardinality({i \in 1..Len(seq) : P(seq[i])})

\* C1: in every mailbox the UIDs assigned by APPEND, COPY and MOVE are strictly
\* increasing in allocation order, and every assigned UID (and the UID of every
\* stored message) is at most uidNext - 1 from the assignment on
UidMonotonic ==
    /\ \A mb \in MailboxIds :
         /\ StrictlyIncreasing(allocLog[mb])
         /\ \A i \in 1..Len(allocLog[mb]) : allocLog[mb][i] <= mailboxes[mb].uidNext - 1
    /\ \A m \in messages : m.uid <= mailboxes[m.mailbox].uidNext - 1

\* three sessionwise interleaved allocations in one mailbox, by a COPY and by
\* an APPEND or MOVE of another session
UidMonotonicWitness ==
    \E mb \in MailboxIds, a, b \in Sessions :
        /\ Len(allocLog[mb]) >= 3
        /\ cmd[a].kind = "COPY" /\ cmd[a].target.id = mb /\ cmd[a].destinationUid # <<>>
        /\ cmd[b].kind \in {"APPEND", "MOVE"} /\ cmd[b].message.mailbox = mb

\* C2: no UID is reused: once a message has been removed from a mailbox, uidNext
\* of that mailbox is never lower than it was at the removal, and every UID
\* allocated there afterwards is greater than the removed UID, than every UID
\* allocated before, and than every UID the mailbox started with
NoUidReuse ==
    \A i \in 1..Len(mutations) :
        LET r == mutations[i]
            log == allocLog[r.mailbox]
        IN r.kind = "EXPUNGE" =>
             /\ r.uid < r.next
             /\ mailboxes[r.mailbox].uidNext >= r.next
             /\ \A k \in (r.allocs + 1)..Len(log) :
                  /\ log[k] > r.uid
                  /\ \A j \in 1..r.allocs : log[k] > log[j]
                  /\ \A u \in InitUids(r.mailbox) : log[k] > u

\* a message was expunged from a mailbox by EXPUNGE and a message was added to
\* that mailbox later
NoUidReuseWitness ==
    \E i \in 1..Len(mutations), s \in Sessions :
        /\ mutations[i].kind = "EXPUNGE"
        /\ cmd[s].kind = "EXPUNGE" /\ mutations[i].by = s
        /\ Len(allocLog[mutations[i].mailbox]) > mutations[i].allocs
        /\ \E m \in messages : /\ m.mailbox = mutations[i].mailbox
                               /\ m.uid >= mutations[i].next

\* a finished command of session s that added exactly one message to mailbox mb
AddedOne(s, mb) ==
    /\ Idle(s)
    /\ ~cmd[s].result.err /\ cmd[s].result.status = "OK"
    /\ \/ cmd[s].kind = "APPEND" /\ cmd[s].mailbox.id = mb
       \/ cmd[s].kind = "COPY" /\ cmd[s].target.id = mb
    /\ Len(cmd[s].result.destinationUid) = 1

AddedUid(s) == Head(cmd[s].result.destinationUid)

ExistsReceived(s, uid) == Count(out[s], LAMBDA r : r.t = "EXISTS" /\ r.ref = uid)

\* C3: two sessions that each added one message (by APPEND or COPY) to a
\* mailbox whose uidNext was n, with no other addition to or removal from it:
\* the new messages have UIDs n and n+1, uidNext is n+2, and every other session
\* that has the mailbox selected has been sent exactly one EXISTS for each new
\* message, or is woken and will be sent it by its next flush
ConcurrentAdd ==
    \A a, b \in Sessions, mb \in MailboxIds :
        LET n == InitMailboxes[mb].uidNext
        IN (/\ a # b /\ AddedOne(a, mb) /\ AddedOne(b, mb)
            /\ Len(allocLog[mb]) = 2
            /\ \A i \in 1..Len(mutations) :
                 ~(mutations[i].kind = "EXPUNGE" /\ mutations[i].mailbox = mb
                   /\ mutations[i].uid >= n))
           => /\ {AddedUid(a), AddedUid(b)} = {n, n + 1}
              /\ mailboxes[mb].uidNext = n + 2
              /\ {m.uid : m \in {x \in MessagesOf(mb) : x.uid >= n}} = {n, n + 1}
              /\ \A x \in {a, b}, s \in Sessions :
                   (s # x /\ selected[s].mailbox = mb) =>
                     \/ /\ ExistsReceived(s, AddedUid(x)) = 1
                        /\ AddedUid(x) \notin Range(DrainExistsUids(s))
                     \/ /\ ExistsReceived(s, AddedUid(x)) = 0
                        /\ wake[s]
                        /\ AddedUid(x) \in Range(DrainExistsUids(s))

\* two COPY commands into the mailbox both sessions have selected, each
\* session already sent the EXISTS of the other's message
ConcurrentAddWitness ==
    \E a, b \in Sessions, mb \in MailboxIds :
        /\ a # b /\ AddedOne(a, mb) /\ AddedOne(b, mb)
        /\ cmd[a].kind = "COPY" /\ cmd[b].kind = "COPY"
        /\ Len(allocLog[mb]) = 2
        /\ selected[a].mailbox = mb /\ selected[b].mailbox = mb
        /\ ExistsReceived(a, AddedUid(b)) = 1
        /\ ExistsReceived(b, AddedUid(a)) = 1

\* C5: once every command has completed, user.storageUsed is the sum of the
\* sizes of all stored messages (no batch is in flight then)
QuotaConserved ==
    Quiescent => user.storageUsed = SumSizes(messages)

JournalCount(mb, uid, kind) ==
    Count(journal, LAMBDA e : e.mailbox = mb /\ e.uid = uid /\ e.command = kind)

MutationCount(mb, uid, kind) ==
    Count(mutations, LAMBDA r : r.mailbox = mb /\ r.uid = uid /\ r.kind = kind)

\* C6: once every command has completed, each persisted mutation of a message
\* (flags changed, message inserted, message removed) has exactly one journal
\* entry of its mailbox with its uid, and the entry's modseq is greater than the
\* mailbox's modifyIndex before the mutation
JournalComplete ==
    Quiescent =>
      \A mb \in MailboxIds, kind \in {"EXISTS", "EXPUNGE", "FETCH"} :
        \A uid \in {r.uid : r \in Range(mutations)} \cup {e.uid : e \in Range(journal)} :
          /\ JournalCount(mb, uid, kind) = MutationCount(mb, uid, kind)
          /\ \A i \in 1..Len(mutations) :
               (mutations[i].mailbox = mb /\ mutations[i].uid = uid
                /\ mutations[i].kind = kind)
               => \E j \in 1..Len(journal) :
                    /\ journal[j].mailbox = mb /\ journal[j].uid = uid
                    /\ journal[j].command = kind
                    /\ journal[j].modseq > mutations[i].prev

\* C4: every stored message has seen, flagged and deleted equal to the
\* membership of \Seen, \Flagged and \Deleted in its flags
DenormConsistent ==
    \A m \in messages :
        /\ m.seen <=> Includes(m.flags, Seen)
        /\ m.flagged <=> Includes(m.flags, Flagged)
        /\ m.deleted <=> Includes(m.flags, Deleted)

\* the position of a response in the session's output belongs to its k-th command
CmdOf(seq, i) == 1 + Cardinality({k \in 1..(i - 1) : seq[k].t = "TAGGED"})

\* session s has taken journal entry j into account in a flush
Drained(s, j) ==
    /\ selected[s].mailbox = journal[j].mailbox
    /\ selected[s].modseq >= journal[j].modseq

Emitted(s, j) == \E i \in 1..Len(out[s]) : out[s][i].e = j

\* C7 as stated: an entry produced by a session's STORE, FETCH or EXPUNGE has
\* ignore = that session, that session emits nothing for it, and every other
\* session that has the mailbox selected emits it when it drains the journal
OwnChangeSuppressedAll ==
    \A j \in 1..Len(journal) :
        journal[j].command \in {"FETCH", "EXPUNGE"} =>
            /\ journal[j].ignore = journal[j].by
            /\ ~Emitted(journal[j].by, j)
            /\ \A s \in Sessions \ {journal[j].by} : Drained(s, j) => Emitted(s, j)

\* C7: an entry produced by a session's STORE, FETCH or EXPUNGE has ignore =
\* that session, that session emits nothing for it, and every other session that
\* has the mailbox selected and still lists the message emits it when it drains
\* the journal
OwnChangeSuppressed ==
    \A j \in 1..Len(journal) :
        journal[j].command \in {"FETCH", "EXPUNGE"} =>
            /\ journal[j].ignore = journal[j].by
            /\ ~Emitted(journal[j].by, j)
            /\ \A s \in Sessions \ {journal[j].by} :
                 (Drained(s, j) /\ Includes(selected[s].uidList, journal[j].uid))
                 => Emitted(s, j)

\* entries of a STORE, a FETCH or an EXPUNGE that the producing session has
\* drained without emitting and the other session has emitted
OwnChangeSuppressedWitness ==
    \E j \in 1..Len(journal), s \in Sessions :
        /\ journal[j].command = "FETCH"
        /\ s # journal[j].by
        /\ cmd[journal[j].by].kind \in {"STORE", "FETCH"}
        /\ Drained(journal[j].by, j) /\ ~Emitted(journal[j].by, j)
        /\ Idle(journal[j].by)
        /\ Drained(s, j) /\ Emitted(s, j)
        /\ Includes(selected[s].uidList, journal[j].uid)

\* the EXPUNGE responses of the session's latest command: written by its own
\* EXPUNGE (own = TRUE) or by the flush of pending notifications
ExpungeResponses(s, own) ==
    {i \in 1..Len(out[s]) : /\ out[s][i].t = "EXPUNGE"
                            /\ (out[s][i].e = 0) = own
                            /\ CmdOf(out[s], i) = ncmds[s]}

\* the MSN of a response's message in the map the session had before the first
\* EXPUNGE of the command or flush
PreMsn(s, i) == IF out[s][i].e = 0 THEN Msn(cmd[s].pre, out[s][i].ref) ELSE out[s][i].n

\* C8 as stated: the EXPUNGE responses of one EXPUNGE command, and those of one
\* flush, have strictly decreasing MSNs in the pre-expunge map
ExpungeDecreasing ==
    \A s \in Sessions, own \in BOOLEAN :
        \A i, j \in ExpungeResponses(s, own) : i < j => PreMsn(s, i) > PreMsn(s, j)

\* C8: the EXPUNGE responses of one flush have strictly decreasing MSNs in the
\* pre-expunge map; those of the session's own EXPUNGE command come in ascending
\* UID order, strictly increasing in the pre-expunge map, each carrying the MSN
\* its message has when the response is written
ExpungeOrder ==
    \A s \in Sessions :
        /\ \A i, j \in ExpungeResponses(s, FALSE) : i < j => PreMsn(s, i) > PreMsn(s, j)
        /\ \A i, j \in ExpungeResponses(s, TRUE) :
             i < j => /\ out[s][i].ref < out[s][j].ref
                      /\ PreMsn(s, i) < PreMsn(s, j)
        /\ \A i \in ExpungeResponses(s, TRUE) :
             out[s][i].n = PreMsn(s, i)
                 - Cardinality({k \in ExpungeResponses(s, TRUE) : k < i})

\* one session has written two EXPUNGE responses in its own EXPUNGE command,
\* another has written two in one flush
ExpungeOrderWitness ==
    \E s, t \in Sessions :
        /\ cmd[s].kind = "EXPUNGE" /\ Idle(s) /\ Idle(t)
        /\ Cardinality(ExpungeResponses(s, TRUE)) >= 2
        /\ Cardinality(ExpungeResponses(t, FALSE)) >= 2

\* the uids whose stored flags a command of session s changed
Modified(s) ==
    {mutations[i].uid : i \in {k \in 1..Len(mutations) :
        mutations[k].by = s /\ mutations[k].kind = "FETCH"}}

\* a STORE of session s has completed with OK
StoreCompleted(s) ==
    /\ cmd[s].kind = "STORE" /\ pc[s] \in {"flush", "idle"}
    /\ ~cmd[s].result.err /\ cmd[s].result.status = "OK"

\* C9: a completed STORE with UNCHANGEDSINCE m, 0 included, has modified only
\* requested messages whose modseq before the command was <= m, and its result
\* lists every other requested message as MODIFIED
UnchangedSince ==
    \A s \in Sessions :
        (StoreCompleted(s) /\ cmd[s].unchangedSince >= 0 /\ ncmds[s] = 1) =>
            LET c == cmd[s]
                requested == {m \in c.before : m.mailbox = c.mailbox.id
                                               /\ m.uid \in c.messages}
                eligible == {m.uid : m \in {x \in requested :
                                               x.modseq <= c.unchangedSince}}
                others == {m.uid : m \in requested} \ eligible
            IN /\ Modified(s) \subseteq eligible
               /\ c.result.modified = others

\* an untagged FETCH of session b's own STORE for uid: the UID item and the new
\* flags, ahead of the command's tagged OK
OwnFetch(b, uid) ==
    \E i \in 1..Len(out[b]) :
        /\ out[b][i].t = "FETCH" /\ out[b][i].e = 0
        /\ out[b][i].ref = uid /\ out[b][i].uid = uid
        /\ Includes(out[b][i].flags, Seen)
        /\ CmdOf(out[b], i) = ncmds[b]
        /\ \E k \in (i + 1)..Len(out[b]) :
             out[b][k].t = "TAGGED" /\ out[b][k].st = "OK"

\* the untagged FETCH (FLAGS) that delivers entry j to session a, ahead of the
\* tagged response of the command it is flushed in
NotifiedFetch(a, j) ==
    \E i \in 1..Len(out[a]) :
        /\ out[a][i].t = "FETCH" /\ out[a][i].e = j
        /\ out[a][i].ref = journal[j].uid /\ out[a][i].uid = 0
        /\ out[a][i].flags = journal[j].flags
        /\ \E k \in (i + 1)..Len(out[a]) :
             out[a][k].t = "TAGGED" /\ CmdOf(out[a], k) = CmdOf(out[a], i)

\* session b has completed a non-silent UID STORE +FLAGS (\Seen) whose entry j
\* records the \Seen it added to a message
AddedSeen(b, j) ==
    /\ StoreCompleted(b) /\ Idle(b)
    /\ cmd[b].action = "add" /\ cmd[b].value = <<Seen>>
    /\ ~cmd[b].silent /\ cmd[b].isUid
    /\ journal[j].by = b /\ journal[j].command = "FETCH"
    /\ journal[j].uid \in cmd[b].messages

\* C10: with A and B on the same mailbox, B's non-silent UID STORE +FLAGS (\Seen)
\* sent B an untagged FETCH with the UID and the new flags before its tagged OK
\* and no notification of its own change; A has been sent an untagged FETCH
\* (FLAGS) of the message before the tagged response of the command that
\* drained it, or is woken and will be sent it by its next flush
StoreSeenNotifies ==
    \A a, b \in Sessions, j \in 1..Len(journal) :
        (a # b /\ selected[a].mailbox = selected[b].mailbox /\ AddedSeen(b, j)) =>
            /\ OwnFetch(b, journal[j].uid)
            /\ ~Emitted(b, j)
            /\ IF Drained(a, j) THEN NotifiedFetch(a, j)
               ELSE wake[a] /\ j \in Deliverable(a)

\* B's STORE has completed and A, whose command came after it, has been sent
\* the FETCH of B's change
StoreSeenNotifiesWitness ==
    \E a, b \in Sessions, j \in 1..Len(journal) :
        /\ a # b /\ selected[a].mailbox = selected[b].mailbox /\ AddedSeen(b, j)
        /\ OwnFetch(b, journal[j].uid)
        /\ Idle(a) /\ Drained(a, j) /\ NotifiedFetch(a, j)

\* session s has completed its first command, of the given kind, with OK, no
\* storage call has failed and no other session has issued a command
CompletedAlone(s, kind) ==
    /\ cmd[s].kind = kind /\ Idle(s) /\ ncmds[s] = 1
    /\ ~cmd[s].result.err /\ cmd[s].result.status = "OK"
    /\ faults = MaxFaults
    /\ \A t \in Sessions \ {s} : ncmds[t] = 0

\* the responses of the given type the session's own command wrote, in order
OwnResponses(s, type) ==
    SelectSeq(out[s], LAMBDA r : r.t = type /\ r.e = 0)

\* the messages of the selected mailbox that carry \Deleted before the EXPUNGE
ExpungeRemoved(s) ==
    {m \in ExpungeMessages : m.mailbox = selected[s].mailbox /\ Includes(m.flags, Deleted)}

Reverse(seq) == [i \in 1..Len(seq) |-> seq[Len(seq) + 1 - i]]

\* a COPY of session s that ran alone: the messages it found in the source, the
\* destination's uidNext before it, and the copies now in the destination
CopySource(s) ==
    SortedByUid({m \in InitMessages : m.mailbox = cmd[s].mailbox.id
                                      /\ m.uid \in cmd[s].messages})

CopyFirstUid(s) == InitMailboxes[cmd[s].target.id].uidNext

CopyCreated(s) ==
    LET source == CopySource(s)
        n == CopyFirstUid(s)
    IN /\ Len(source) >= 1
       /\ mailboxes[cmd[s].target.id].uidNext = n + Len(source)
       /\ user.storageUsed = SumSizes(InitMessages) + SumSizes(Range(source))
       /\ {m.uid : m \in messages \ InitMessages} = n..(n + Len(source) - 1)
       /\ \A i \in 1..Len(source) :
            \E m \in messages \ InitMessages :
                /\ m.mailbox = cmd[s].target.id /\ m.uid = n + i - 1
                /\ m.flags = source[i].flags /\ m.size = source[i].size
       /\ cmd[s].result.uidValidity = InitMailboxes[cmd[s].target.id].uidValidity

\* C12: a COPY that ran alone created one message per source message with the
\* destination UIDs n.. in ascending source UID order, left uidNext at n+k, raised
\* storageUsed by the copied sizes, and returned the destination's uidValidity
\* with both UID lists in ascending order, the i-th source UID copied to the i-th
\* destination UID
CopyAlone ==
    \A s \in Sessions :
        CompletedAlone(s, "COPY") =>
            LET source == CopySource(s)
                n == CopyFirstUid(s)
            IN /\ CopyCreated(s)
               /\ cmd[s].result.sourceUid = [i \in 1..Len(source) |-> source[i].uid]
               /\ cmd[s].result.destinationUid = [i \in 1..Len(source) |-> n + i - 1]

\* ------------------------ STORE, FETCH, EXPUNGE and COPY of two sessions
NextJournal ==
    \E s \in Sessions :
        \/ StoreStartNotify(s) \/ StoreNext(s) \/ StoreBulk(s) \/ StoreNotify(s)
        \/ StoreDoneBulk(s) \/ StoreDoneNotify(s)
        \/ FetchStartNotify(s) \/ FetchNext(s) \/ FetchBulk(s) \/ FetchNotify(s)
        \/ FetchDoneBulk(s) \/ FetchDoneNotify(s)
        \/ ExpungeStart(s) \/ ExpungeNext(s) \/ ExpungeDelete(s)
        \/ ExpungeNotify(s) \/ ExpungeQuota(s)
        \/ CopyStart(s) \/ CopyTarget(s) \/ CopyNext(s) \/ CopyAlloc(s)
        \/ CopyInsert(s) \/ CopyNotify(s) \/ CopyQuota(s)
        \/ Flush(s)

SpecJournal == Init /\ [][NextJournal]_vars

\* the completion callback of the session's first command has been invoked with
\* a success result
ReportedSuccess(s) ==
    /\ pc[s] \in {"flush", "idle"} /\ ncmds[s] = 1
    /\ ~cmd[s].result.err /\ cmd[s].result.status = "OK"

\* the mutations the session's command persisted
Persisted(s) == SelectSeq(mutations, LAMBDA r : r.by = s)

\* the journal holds an entry of the session for the mutation
Journaled(s, r) ==
    \E j \in 1..Len(journal) :
        /\ journal[j].by = s /\ journal[j].mailbox = r.mailbox
        /\ journal[j].uid = r.uid /\ journal[j].command = r.kind

\* C13: when the completion callback of a STORE, FETCH, EXPUNGE or COPY has been
\* invoked with a success result, the journal already holds an entry of that
\* command for every mutation the command persisted
JournalBeforeSuccess ==
    \A s \in Sessions :
        (ReportedSuccess(s) /\ cmd[s].kind \in {"STORE", "FETCH", "EXPUNGE", "COPY"})
        => \A i \in 1..Len(Persisted(s)) : Journaled(s, Persisted(s)[i])

JournalBeforeSuccessWitness ==
    \E s \in Sessions, t \in Sessions :
        /\ s # t /\ pc[s] = "flush" /\ pc[t] = "flush"
        /\ ReportedSuccess(s) /\ ReportedSuccess(t)
        /\ cmd[s].kind = "STORE" /\ cmd[t].kind = "COPY"
        /\ Len(Persisted(s)) >= 1 /\ Len(Persisted(t)) = 2

\* the highest modseq among the messages stored in a mailbox and the journal
\* entries of that mailbox, 0 when there are none
HighestModseq(mb) ==
    Max({0} \cup {m.modseq : m \in {x \in messages : x.mailbox = mb}}
            \cup {journal[j].modseq : j \in {i \in 1..Len(journal) : journal[i].mailbox = mb}})

ModifyIndexIsHighest ==
    \A mb \in MailboxIds :
        mailboxes[mb].exists => mailboxes[mb].modifyIndex = HighestModseq(mb)

MailboxInit ==
    [InitMailboxes EXCEPT
       ![3] = [id |-> 3, exists |-> TRUE, path |-> "Trash", uidValidity |-> 300,
               uidNext |-> 2, modifyIndex |-> 1, flags |-> <<>>,
               subscribed |-> TRUE, specialUse |-> "\\Trash"],
       ![4] = [id |-> 4, exists |-> TRUE, path |-> "Archive/Old", uidValidity |-> 400,
               uidNext |-> 1, modifyIndex |-> 0, flags |-> <<>>,
               subscribed |-> TRUE, specialUse |-> ""]]

MailboxMessages ==
    InitMessages \cup
    {[id |-> 3, mailbox |-> 3, uid |-> 1, modseq |-> 1, flags |-> <<>>,
      seen |-> FALSE, flagged |-> FALSE, deleted |-> FALSE, size |-> 4]}

MailboxJournal ==
    <<[Entry("EXISTS", 0, 2, <<>>, 2, 0) EXCEPT !.mailbox = 1, !.modseq = 2],
      [Entry("EXISTS", 0, 1, <<>>, 3, 0) EXCEPT !.mailbox = 3, !.modseq = 1]>>

InitMailbox ==
    /\ mailboxes = MailboxInit
    /\ messages = MailboxMessages
    /\ journal = MailboxJournal
    /\ user = [quota |-> 0, storageUsed |-> SumSizes(MailboxMessages)]
    /\ selected = [s \in Sessions |-> SelectFrom("INBOX", MailboxInit, MailboxMessages)]
    /\ nextId = 10
    /\ wake = [s \in Sessions |-> FALSE]
    /\ out = [s \in Sessions |-> <<>>]
    /\ pc = [s \in Sessions |-> "idle"]
    /\ cmd = [s \in Sessions |-> IdleCmd]
    /\ ncmds = [s \in Sessions |-> 0]
    /\ allocLog = [id \in MailboxIds |-> <<>>]
    /\ mutations = <<>>
    /\ faults = MaxFaults

NextMailbox ==
    \E s \in Sessions :
        \/ CreateStart(s) \/ CreateInsert(s)
        \/ RenameStart(s) \/ RenameUpdate(s)
        \/ DeleteStart(s) \/ DeleteMailbox(s) \/ DeleteAggregate(s)
        \/ DeleteMessages(s) \/ DeleteQuota(s) \/ DeleteJournal(s)
        \/ CopyStart(s) \/ CopyTarget(s) \/ CopyNext(s) \/ CopyAlloc(s)
        \/ CopyInsert(s) \/ CopyNotify(s) \/ CopyQuota(s)
        \/ Flush(s)

SpecMailbox == InitMailbox /\ [][NextMailbox]_vars

\* C16: no two mailbox documents have the same path
UniquePaths ==
    \A i \in MailboxIds, j \in MailboxIds :
        (i # j /\ mailboxes[i].exists /\ mailboxes[j].exists)
        => mailboxes[i].path # mailboxes[j].path

\* the session's command is over and was the only command issued
Alone(s, kind) ==
    /\ cmd[s].kind = kind /\ Idle(s) /\ ncmds[s] = 1
    /\ faults = MaxFaults
    /\ \A t \in Sessions \ {s} : ncmds[t] = 0

\* messages, journal and user are as they were before the commands
RestUntouched ==
    /\ messages = MailboxMessages /\ journal = MailboxJournal
    /\ user = [quota |-> 0, storageUsed |-> SumSizes(MailboxMessages)]

InitPaths == {MailboxInit[id].path : id \in {i \in MailboxIds : MailboxInit[i].exists}}

\* C15: CREATE of a path the user has a mailbox at returns ALREADYEXISTS and
\* changes nothing; otherwise it returns OK and adds exactly one mailbox
\* document, with that path, uidNext 1, modifyIndex 0, subscribed, no flags and
\* uidValidity the time of the command in whole seconds
CreateAlone ==
    \A s \in Sessions :
        Alone(s, "CREATE") =>
          /\ ~cmd[s].result.err
          /\ IF cmd[s].path \in InitPaths
             THEN /\ cmd[s].result.status = "ALREADYEXISTS"
                  /\ mailboxes = MailboxInit /\ RestUntouched
             ELSE /\ cmd[s].result.status = "OK"
                  /\ RestUntouched
                  /\ \E id \in MailboxIds :
                       /\ ~MailboxInit[id].exists
                       /\ \A other \in MailboxIds \ {id} : mailboxes[other] = MailboxInit[other]
                       /\ mailboxes[id].exists /\ mailboxes[id].path = cmd[s].path
                       /\ mailboxes[id].uidNext = 1 /\ mailboxes[id].modifyIndex = 0
                       /\ mailboxes[id].subscribed /\ mailboxes[id].flags = <<>>
                       /\ mailboxes[id].uidValidity * 1000 <= cmd[s].now
                       /\ cmd[s].now < (mailboxes[id].uidValidity + 1) * 1000

CreateAloneWitness ==
    \E s \in Sessions :
        /\ Alone(s, "CREATE") /\ cmd[s].path = "New" /\ cmd[s].now = 1999
        /\ cmd[s].result.status = "OK"
        /\ \E id \in MailboxIds : mailboxes[id].path = "New" /\ mailboxes[id].uidValidity = 1

\* a CREATE and a RENAME to the same absent path both found it absent; one of
\* them wrote it and the other was turned down by the index
UniquePathsWitness ==
    \E s \in Sessions, t \in Sessions :
        /\ Idle(s) /\ Idle(t)
        /\ cmd[s].kind = "CREATE" /\ cmd[t].kind = "RENAME"
        /\ cmd[t].newname = cmd[s].path /\ cmd[t].path = "Archive"
        /\ cmd[s].result.status = "OK" /\ cmd[t].result.err
        /\ Cardinality({id \in MailboxIds : mailboxes[id].exists
                                            /\ mailboxes[id].path = cmd[s].path}) = 1

\* C17: RENAME returns ALREADYEXISTS when the user has a mailbox at newname,
\* otherwise NONEXISTENT when the user has no mailbox at path, and changes
\* nothing in both cases; otherwise it returns OK and changes the path of that
\* one mailbox and nothing else: its id, uidValidity, uidNext, modifyIndex,
\* flags, subscription and messages are as before
RenameAlone ==
    \A s \in Sessions :
        Alone(s, "RENAME") =>
          /\ ~cmd[s].result.err /\ RestUntouched
          /\ IF cmd[s].newname \in InitPaths
             THEN cmd[s].result.status = "ALREADYEXISTS" /\ mailboxes = MailboxInit
             ELSE IF cmd[s].path \notin InitPaths
             THEN cmd[s].result.status = "NONEXISTENT" /\ mailboxes = MailboxInit
             ELSE /\ cmd[s].result.status = "OK"
                  /\ \E id \in MailboxIds :
                       /\ MailboxInit[id].exists /\ MailboxInit[id].path = cmd[s].path
                       /\ mailboxes = [MailboxInit EXCEPT ![id].path = cmd[s].newname]

RenameAloneWitness ==
    \E s \in Sessions :
        /\ Alone(s, "RENAME") /\ cmd[s].path = "INBOX" /\ cmd[s].newname = "New"
        /\ cmd[s].result.status = "OK"
        /\ mailboxes[1].path = "New" /\ mailboxes[1].uidNext = 3
        /\ mailboxes[1].uidValidity = 100 /\ Cardinality(MessagesOf(1)) = 2

\* the paths of MailboxPaths that start with path followed by the separator "/"
Descendants(path) == IF path = "Archive" THEN {"Archive/Old"} ELSE {}

\* C18: after a successful RENAME of path no mailbox has a path that starts
\* with path followed by "/"
RenameRelocates ==
    \A s \in Sessions :
        (Alone(s, "RENAME") /\ cmd[s].result.status = "OK")
        => \A id \in MailboxIds :
             mailboxes[id].exists => mailboxes[id].path \notin Descendants(cmd[s].path)

\* the paths of the mailboxes that have a special use
SpecialPaths ==
    {MailboxInit[id].path : id \in {i \in MailboxIds : MailboxInit[i].exists
                                                       /\ MailboxInit[i].specialUse # ""}}

\* C19: DELETE of a mailbox that has a special use returns CANNOT and DELETE of
\* a missing path returns NONEXISTENT, and in both cases the mailbox documents,
\* the messages, the journal entries and user.storageUsed are as before
DeleteRefused ==
    \A s \in Sessions :
        Alone(s, "DELETE") =>
          /\ cmd[s].path \in SpecialPaths
             => /\ ~cmd[s].result.err /\ cmd[s].result.status = "CANNOT"
                /\ mailboxes = MailboxInit /\ RestUntouched
          /\ cmd[s].path \notin InitPaths
             => /\ ~cmd[s].result.err /\ cmd[s].result.status = "NONEXISTENT"
                /\ mailboxes = MailboxInit /\ RestUntouched

DeleteRefusedWitness ==
    \E s \in Sessions :
        /\ Alone(s, "DELETE") /\ cmd[s].path = "Trash"
        /\ cmd[s].result.status = "CANNOT"
        /\ mailboxes[3].exists /\ Cardinality(MessagesOf(3)) = 1
        /\ \E j \in 1..Len(journal) : journal[j].mailbox = 3

\* the session's DELETE has reported success
DeleteSucceeded(s) ==
    /\ cmd[s].kind = "DELETE" /\ ~cmd[s].result.err /\ cmd[s].result.status = "OK"

\* C20: once every command is over, the mailbox of each successful DELETE, its
\* messages and its journal entries are gone, and user.storageUsed has gone
\* down by the sizes of the removed messages once: it is the total size of the
\* messages that are left
DeleteExact ==
    (Quiescent /\ faults = MaxFaults)
    => \A s \in Sessions :
         DeleteSucceeded(s) =>
           /\ ~mailboxes[cmd[s].mailbox.id].exists
           /\ MessagesOf(cmd[s].mailbox.id) = {}
           /\ \A j \in 1..Len(journal) : journal[j].mailbox # cmd[s].mailbox.id
           /\ user.storageUsed = SumSizes(messages)

\* ------------------------------- APPEND and EXPUNGE of a user with a quota
\* the quotas: none, and one below, at and above what one more message fills
Quotas == {0, 6, 7, 8}

InitAppend ==
    /\ InitSessions
    /\ mailboxes = InitMailboxes
    /\ messages = InitMessages
    /\ selected \in [Sessions -> {Select("INBOX"), Select("Archive")}]
    /\ \E quota \in Quotas :
         user = [quota |-> quota, storageUsed |-> SumSizes(InitMessages)]
    /\ faults = MaxFaults

NextAppend ==
    \E s \in Sessions :
        \/ AppendStart(s) \/ AppendAlloc(s) \/ AppendInsert(s)
        \/ AppendQuota(s) \/ AppendNotify(s)
        \/ ExpungeStart(s) \/ ExpungeNext(s) \/ ExpungeDelete(s)
        \/ ExpungeNotify(s) \/ ExpungeQuota(s)
        \/ Flush(s)

SpecAppend == InitAppend /\ [][NextAppend]_vars

\* the step is the users.findOne of the session's APPEND, and it succeeded
AppendChecked(s) ==
    /\ pc[s] = "idle" /\ pc'[s] # "idle" /\ cmd'[s].kind = "APPEND"
    /\ ~cmd'[s].result.err

AppendRejected(s) == pc'[s] = "flush" /\ cmd'[s].result.status = "OVERQUOTA"

\* C21: an APPEND of a message of size s is answered OVERQUOTA exactly when
\* user.quota > 0 and user.storageUsed + s > user.quota, and the rejection ends
\* the command with no UID allocated, no message inserted, no journal entry
\* appended and user.storageUsed as it was
AppendOverQuotaStep ==
    \A s \in Sessions :
        AppendChecked(s) =>
          /\ AppendRejected(s) <=>
                (user.quota > 0 /\ user.storageUsed + cmd'[s].size > user.quota)
          /\ AppendRejected(s) =>
                UNCHANGED <<mailboxes, messages, journal, user, allocLog, nextId>>
          /\ ~AppendRejected(s) => pc'[s] = "append_alloc"

AppendOverQuota == [][AppendOverQuotaStep]_vars

\* with quota 7 one session's message filled the quota exactly and was stored,
\* and the other session's message was turned down after it
AppendOverQuotaWitness ==
    \E s \in Sessions, t \in Sessions :
        /\ user.quota = 7 /\ user.storageUsed = 7
        /\ cmd[s].kind = "APPEND" /\ cmd[s].result.status = "OVERQUOTA" /\ Idle(s)
        /\ cmd[t].kind = "APPEND" /\ cmd[t].result.status = "OK" /\ Idle(t)
        /\ \A e \in Range(journal) : e.by # s
        /\ \A r \in Range(mutations) : r.by # s

\* ------------------- STORE and FETCH with one storage call that fails
InitStoreFault ==
    /\ InitSessions
    /\ mailboxes = InitMailboxes
    /\ messages = InitMessages
    /\ selected \in [Sessions -> {Select("INBOX"), Select("Archive")}]
    /\ user = [quota |-> 0, storageUsed |-> SumSizes(InitMessages)]
    /\ faults = MaxFaults + 1

SpecStoreFault == InitStoreFault /\ [][NextStore]_vars

\* C22: a STORE or FETCH one of whose bulk writes failed, a full batch or the
\* last partial one, completes with an error
BulkErrorReported ==
    \A s \in Sessions :
        (pc[s] \in {"flush", "idle"} /\ ncmds[s] = 1
         /\ cmd[s].kind \in {"STORE", "FETCH"} /\ cmd[s].bulkError)
        => cmd[s].result.err

\* ------------------------ STORE of many keywords by two sessions
\* n keywords that differ from one another and from the system flags
Keywords(prefix, n) == [i \in 1..n |-> prefix \o ToString(i)]

\* updates of six keywords each
FlagUpdates ==
    {Update("add", Keywords("a", 6), TRUE, TRUE, -1),
     Update("add", Keywords("b", 6), TRUE, TRUE, -1),
     Update("set", Keywords("a", 6), TRUE, TRUE, -1),
     Update("remove", Keywords("a", 6), TRUE, TRUE, -1)}

StoreStartFlags(s) == StoreStartWith(s, FlagUpdates)

\* INBOX lists so many keywords that, with the system flags, six more reach the
\* limit
FlagMailboxes ==
    [InitMailboxes EXCEPT
       ![1].flags = Keywords("k", MAILBOX_FLAGS_LIMIT - Len(SystemFlags) - 6)]

InitFlags ==
    /\ InitSessions
    /\ mailboxes = FlagMailboxes
    /\ messages = InitMessages
    /\ selected \in [Sessions -> {Select("INBOX"), Select("Archive")}]
    /\ user = [quota |-> 0, storageUsed |-> SumSizes(InitMessages)]
    /\ faults = MaxFaults

NextFlags ==
    \E s \in Sessions :
        \/ StoreStartFlags(s) \/ StoreNext(s) \/ StoreBulk(s) \/ StoreNotify(s)
        \/ StoreDoneBulk(s) \/ StoreDoneNotify(s) \/ StoreMailboxFlags(s)
        \/ Flush(s)

SpecFlags == InitFlags /\ [][NextFlags]_vars

\* C23: a mailbox's flags list holds at most 100 keywords
MailboxFlagsCapped ==
    \A mb \in MailboxIds : Len(mailboxes[mb].flags) <= MAILBOX_FLAGS_LIMIT

\* --------------------- FETCH of a mailbox that holds a message with \Seen
FetchMessages ==
    InitMessages \cup
    {[id |-> 3, mailbox |-> 1, uid |-> 3, modseq |-> 3, flags |-> <<Seen>>,
      seen |-> TRUE, flagged |-> FALSE, deleted |-> FALSE, size |-> 3]}

InitFetch ==
    /\ InitSessions
    /\ mailboxes = ExpungeMailboxes
    /\ messages = FetchMessages
    /\ selected \in [Sessions -> {SelectFrom("INBOX", ExpungeMailboxes, FetchMessages)}]
    /\ user = [quota |-> 0, storageUsed |-> SumSizes(FetchMessages)]
    /\ faults = MaxFaults

NextFetch ==
    \E s \in Sessions :
        \/ FetchStart(s) \/ FetchNext(s) \/ FetchBulk(s) \/ FetchNotify(s)
        \/ FetchDoneBulk(s) \/ FetchDoneNotify(s)
        \/ Flush(s)

SpecFetch == InitFetch /\ [][NextFetch]_vars

\* the messages a FETCH has to return: those of the selected mailbox the
\* command names, with modseq above changedSince
FetchMatching(s) ==
    {m \in FetchMessages :
        /\ m.mailbox = selected[s].mailbox /\ m.uid \in cmd[s].messages
        /\ m.modseq > cmd[s].changedSince}

\* the FETCH journal entries for a uid that carry the session as ignore
FetchEntries(s, uid) ==
    {j \in 1..Len(journal) : /\ journal[j].command = "FETCH" /\ journal[j].uid = uid
                             /\ journal[j].ignore = s /\ journal[j].mailbox = selected[s].mailbox}

StreamError ==
    <<Resp("INTERNAL ERROR", 0, 0, 0, <<>>, 0, ""), Resp("destroy", 0, 0, 0, <<>>, 0, "")>>

\* onFetch processNext: the rows before row k + 1 are written, the stream of
\* row k + 1 emits 'error': the line, the destroy, cursor.close and done(err)
FetchStreamError(s) ==
    /\ pc[s] = "fetch_next"
    /\ LET c0 == cmd[s]
           c1 == IF c0.opened THEN c0
                 ELSE [c0 EXCEPT !.opened = TRUE, !.cursor = FetchCursor(c0)]
       IN \E k \in 0..(Len(c1.cursor) - 1) :
            LET scan == FetchScan(s, [c1 EXCEPT !.cursor = SubSeq(@, 1, k)], <<>>)
                c == [scan.c EXCEPT !.cursor = <<>>]
            IN /\ scan.c.cursor = <<>>
               /\ Len(c.updateEntries) < BULK_BATCH_SIZE
               /\ out' = [out EXCEPT ![s] = @ \o scan.written \o StreamError]
               /\ FetchDone(s, c, Result(TRUE, ""))
    /\ UNCHANGED <<mailboxes, messages, user, journal, nextId, selected, ncmds,
                   faults, allocLog, mutations>>

NextFetchStream ==
    \E s \in Sessions :
        \/ FetchStart(s) \/ FetchNext(s) \/ FetchBulk(s) \/ FetchNotify(s)
        \/ FetchDoneBulk(s) \/ FetchDoneNotify(s) \/ FetchStreamError(s)
        \/ Flush(s)

SpecFetchStream == InitFetch /\ [][NextFetchStream]_vars

\* the socket of the session was destroyed at position i of its history
Destroyed(s, i) == out[s][i].t = "destroy"

\* after the destroy the command writes no FETCH response of its own (e = 0:
\* not a journal entry of another session) and it has ended with the error
StreamErrorEnds(s, i) ==
    /\ \A k \in (i + 1)..Len(out[s]) : ~(out[s][k].t = "FETCH" /\ out[s][k].e = 0)
    /\ pc[s] \in {"flush", "idle"} => cmd[s].result.err

\* C25: when the stream of a FETCH response fails, an untagged BYE is written
\* and then the connection is destroyed, no FETCH response of the command is
\* written after it and the command completes with the error
StreamErrorBye ==
    \A s \in Sessions :
        \A i \in 1..Len(out[s]) :
            Destroyed(s, i) =>
              /\ i > 1 /\ out[s][i - 1].t = "BYE"
              /\ StreamErrorEnds(s, i)

\* ------------------------------------------------------------------ LOGIN
\* strings of onAuth are sequences of characters
Whitespace == {" ", "\t"}

RECURSIVE TrimStart(_)
TrimStart(str) ==
    IF str # <<>> /\ Head(str) \in Whitespace THEN TrimStart(Tail(str)) ELSE str

\* String.prototype.trim
Trim(str) == Reverse(TrimStart(Reverse(TrimStart(str))))

\* bcrypt: the stored hash carries its salt, the digest is a value of the salt
\* and the password
BcryptHash(salt, password) == [salt |-> salt, digest |-> <<salt, password>>]

\* a comparison that accepts every password
CompareSyncAny(password, hash) == TRUE

\* bcrypt.compareSync(login.password, user.password)
CompareSync(password, hash) == BcryptHash(hash.salt, password) = hash

\* collection users
Users ==
    { [id |-> 1, username |-> <<"a">>, password |-> BcryptHash(1, <<"p">>)],
      [id |-> 2, username |-> <<"c", "d">>, password |-> BcryptHash(2, <<"q">>)] }

NoUser == [id |-> 0, username |-> <<>>, password |-> BcryptHash(0, <<>>)]

\* users.findOne({username})
FindUser(username) ==
    IF \E u \in Users : u.username = username
    THEN CHOOSE u \in Users : u.username = username
    ELSE NoUser

\* login.username and login.password of the attempts
LoginUsernames == {<<"a">>, <<" ", "a", " ">>, <<"c", "d">>, <<"b">>, <<" ">>, <<>>}
LoginPasswords == {<<"p">>, <<"q">>, <<>>}

NoPrincipal == [id |-> 0, username |-> <<>>]

\* what onAuth hands to its callback: callback(err), callback(),
\* callback(null, {user})
AuthResult(err, response, message, principal) ==
    [err |-> err, response |-> response, message |-> message, user |-> principal]

TooManyLogins == AuthResult(TRUE, "NO", "Too many logins, try again later", NoPrincipal)

\* server.onAuth: the username is trimmed; lookups is history: the findOne
\* calls on users the attempt has made
AuthStart(s) ==
    /\ pc[s] = "idle"
    /\ ncmds[s] < MaxCmds
    /\ ncmds' = [ncmds EXCEPT ![s] = @ + 1]
    /\ \E username \in LoginUsernames, password \in LoginPasswords :
         Goto(s, [kind |-> "AUTH", username |-> Trim(username), login |-> username,
                  password |-> password, limited |-> FALSE, lookups |-> 0,
                  result |-> AuthResult(FALSE, "", "", NoPrincipal)] @@ IdleCmd,
              "auth_limiter")
    /\ UNCHANGED <<mailboxes, messages, user, journal, nextId, selected, wake, out,
                   faults, allocLog, mutations>>

\* server.loginLimiter(key, (err, timeLeft) => ...): the limiter fails, reports
\* the cap exceeded, or lets the attempt through
AuthLimiter(s) ==
    /\ pc[s] = "auth_limiter"
    /\ \E ok \in Outcomes, timeLeft \in {0, 1} :
         /\ Spend(ok)
         /\ IF ~ok
            THEN Callback(s, cmd[s], AuthResult(TRUE, "", "limiter", NoPrincipal))
            ELSE IF timeLeft # 0
            THEN Callback(s, [cmd[s] EXCEPT !.limited = TRUE], TooManyLogins)
            ELSE Goto(s, cmd[s], "auth_find")
    /\ UNCHANGED <<mailboxes, messages, user, journal, nextId, selected, wake, out,
                   ncmds, allocLog, mutations>>

\* users.findOne and the comparison of the password with the stored hash
AuthFind(s) ==
    /\ pc[s] = "auth_find"
    /\ \E ok \in Outcomes :
         LET c == [cmd[s] EXCEPT !.lookups = @ + 1]
             found == FindUser(c.username)
         IN /\ Spend(ok)
            /\ IF ~ok
               THEN Callback(s, c, AuthResult(TRUE, "", "users", NoPrincipal))
               ELSE IF found = NoUser
               THEN Callback(s, c, AuthResult(FALSE, "", "", NoPrincipal))
               ELSE IF ~CompareSync(c.password, found.password)
               THEN Callback(s, c, AuthResult(FALSE, "", "", NoPrincipal))
               ELSE Callback(s, c, AuthResult(FALSE, "", "",
                                   [id |-> found.id, username |-> c.username]))
    /\ UNCHANGED <<mailboxes, messages, user, journal, nextId, selected, wake, out,
                   ncmds, allocLog, mutations>>

\* the session answers the LOGIN: the error's response and message, or
\* OK with a principal and NO without one
AuthReply(s) ==
    /\ pc[s] = "flush"
    /\ cmd[s].kind = "AUTH"
    /\ LET r == cmd[s].result
           st == IF r.err THEN r.response \o " " \o r.message
                 ELSE IF r.user # NoPrincipal THEN "OK" ELSE "NO"
       IN out' = [out EXCEPT ![s] = Append(@, Resp("TAGGED", 0, 0, 0, <<>>, 0, st))]
    /\ pc' = [pc EXCEPT ![s] = "idle"]
    /\ UNCHANGED <<mailboxes, messages, user, journal, nextId, selected, wake, cmd,
                   ncmds, faults, allocLog, mutations>>

InitAuth ==
    /\ InitSessions
    /\ mailboxes = InitMailboxes
    /\ messages = InitMessages
    /\ selected = [s \in Sessions |-> SelectFrom("", InitMailboxes, InitMessages)]
    /\ user = [quota |-> 0, storageUsed |-> SumSizes(InitMessages)]
    /\ faults = MaxFaults

NextAuth ==
    \E s \in Sessions : AuthStart(s) \/ AuthLimiter(s) \/ AuthFind(s) \/ AuthReply(s)

SpecAuth == InitAuth /\ [][NextAuth]_vars

\* the attempt of a session has been answered by the handler
Attempted(s) == cmd[s].kind = "AUTH" /\ pc[s] \in {"flush", "idle"}

\* the stored hash of the named user matches the password of the attempt
Matches(c) ==
    /\ FindUser(c.username) # NoUser
    /\ LET hash == FindUser(c.username).password
       IN hash.digest = <<hash.salt, c.password>>

\* C26: an attempt that is not rate-limited gets the same result for an unknown
\* username as for a known one with a wrong password (no principal, no error),
\* a principal {id, username} is handed back only when the stored hash matches
\* the password, and a rate-limited attempt is answered NO Too many logins, try
\* again later without a lookup in users
AuthIndistinguishable ==
    \A s \in Sessions :
        (Attempted(s) /\ faults = MaxFaults) =>
          LET c == cmd[s]
          IN /\ c.limited =>
                  /\ c.result = TooManyLogins
                  /\ c.lookups = 0
                  /\ pc[s] = "idle" =>
                       out[s][Len(out[s])].st = "NO Too many logins, try again later"
             /\ (~c.limited /\ ~Matches(c)) =>
                  /\ c.result = AuthResult(FALSE, "", "", NoPrincipal)
                  /\ c.lookups = 1
             /\ (~c.limited /\ Matches(c)) =>
                  c.result = AuthResult(FALSE, "", "",
                                 [id |-> FindUser(c.username).id, username |-> c.username])
             /\ c.result.user # NoPrincipal => (~c.limited /\ Matches(c))

\* two answered attempts, one for an unknown username and one for a known
\* username with a wrong password
AuthIndistinguishableWitness ==
    /\ \E s, t \in Sessions :
         /\ Attempted(s) /\ Attempted(t)
         /\ ~cmd[s].limited /\ ~cmd[t].limited
         /\ FindUser(cmd[s].username) = NoUser
         /\ FindUser(cmd[t].username) # NoUser /\ ~Matches(cmd[t])
         /\ cmd[s].result = cmd[t].result
    /\ faults = MaxFaults

\* ------------------------------------------------- GETQUOTAROOT / GETQUOTA
\* server.options.maxStorage
maxStorage == 9

\* a report that passes the stored counter on as it is
ClampUnclamped(storageUsed) == storageUsed

\* Math.max(user.storageUsed || 0, 0)
Clamp(storageUsed) == Max({storageUsed, 0})

\* callback(null, {root: '', quota, storageUsed})
QuotaReport(doc) ==
    [root |-> "", quota |-> IF doc.quota # 0 THEN doc.quota ELSE maxStorage,
     storageUsed |-> Clamp(doc.storageUsed)] @@ Result(FALSE, "OK")

QuotaRoots == {"", "INBOX"}

\* server.onGetQuotaRoot: mailboxes.findOne({user, path})
GetQuotaRootStart(s) ==
    /\ Issue(s)
    /\ \E path \in Paths, ok \in Outcomes :
         LET c == [NewCmd(s, "GETQUOTAROOT") EXCEPT !.path = path]
         IN /\ Spend(ok)
            /\ IF ~ok THEN Callback(s, c, Result(TRUE, ""))
               ELSE IF FindMailbox(path) = NoMailbox
               THEN Callback(s, c, Result(FALSE, "NONEXISTENT"))
               ELSE Goto(s, c, "quota_user")
    /\ UNCHANGED <<mailboxes, messages, user, journal, nextId, selected, wake,
                   out, allocLog, mutations>>

\* server.onGetQuota: only the root "" exists
GetQuotaStart(s) ==
    /\ Issue(s)
    /\ \E quotaRoot \in QuotaRoots :
         LET c == [NewCmd(s, "GETQUOTA") EXCEPT !.path = quotaRoot]
         IN IF quotaRoot # ""
            THEN Callback(s, c, Result(FALSE, "NONEXISTENT"))
            ELSE Goto(s, c, "quota_user")
    /\ UNCHANGED <<mailboxes, messages, user, journal, nextId, selected, wake,
                   out, faults, allocLog, mutations>>

\* users.findOne({_id}) of either handler and the report; storageUsed of the
\* command is history: the stored counter that was read
QuotaUser(s) ==
    /\ pc[s] = "quota_user"
    /\ \E ok \in Outcomes :
         /\ Spend(ok)
         /\ IF ~ok THEN Callback(s, cmd[s], Result(TRUE, ""))
            ELSE Callback(s, [cmd[s] EXCEPT !.storageUsed = user.storageUsed],
                          QuotaReport(user))
    /\ UNCHANGED <<mailboxes, messages, user, journal, nextId, selected, wake,
                   out, ncmds, allocLog, mutations>>

\* the stored counter before the commands: exact, or below it and below zero,
\* as decrements applied twice leave it
DriftedStorage == {SumSizes(InitMessages), 0, 1 - SumSizes(InitMessages), -1}

InitQuota ==
    /\ InitSessions
    /\ mailboxes = InitMailboxes
    /\ messages = InitMessages
    /\ selected \in [Sessions -> {Select("INBOX"), Select("Archive")}]
    /\ \E quota \in {0, 6}, storageUsed \in DriftedStorage :
         user = [quota |-> quota, storageUsed |-> storageUsed]
    /\ faults = MaxFaults

NextQuota ==
    \E s \in Sessions :
        \/ GetQuotaRootStart(s) \/ GetQuotaStart(s) \/ QuotaUser(s)
        \/ ExpungeStart(s) \/ ExpungeNext(s) \/ ExpungeDelete(s)
        \/ ExpungeNotify(s) \/ ExpungeQuota(s)
        \/ Flush(s)

SpecQuota == InitQuota /\ [][NextQuota]_vars

\* the step belongs to a GETQUOTA or GETQUOTAROOT of the session
QuotaStepOf(s) ==
    pc'[s] # pc[s] /\ cmd'[s].kind \in {"GETQUOTA", "GETQUOTAROOT"}

\* the step is the users.findOne of the command, and it succeeded
QuotaReported(s) ==
    pc[s] = "quota_user" /\ pc'[s] = "flush" /\ ~cmd'[s].result.err

QuotaClampedStep ==
    \A s \in Sessions :
        /\ QuotaStepOf(s) => user' = user
        /\ QuotaReported(s) =>
             LET r == cmd'[s].result
             IN /\ r.storageUsed = (IF user.storageUsed > 0 THEN user.storageUsed ELSE 0)
                /\ r.storageUsed >= 0
                /\ r.quota = (IF user.quota # 0 THEN user.quota ELSE maxStorage)
                /\ r.root = ""
        /\ (pc[s] = "idle" /\ cmd'[s].kind = "GETQUOTA" /\ pc'[s] # "idle") =>
             IF cmd'[s].path # ""
             THEN pc'[s] = "flush" /\ cmd'[s].result.status = "NONEXISTENT"
             ELSE pc'[s] = "quota_user"

\* C27: GETQUOTA and GETQUOTAROOT report storageUsed = max(0, user.storageUsed),
\* never a negative value, and leave the stored counter as it is; the quota they
\* report is user.quota when it is not zero and maxStorage otherwise; GETQUOTA
\* for a root other than "" returns NONEXISTENT
QuotaClamped == [][QuotaClampedStep]_vars

\* a report of 0 for a stored counter below zero with the default quota, and
\* the counter is still below zero
QuotaClampedWitness ==
    \E s \in Sessions :
        /\ cmd[s].kind \in {"GETQUOTA", "GETQUOTAROOT"}
        /\ pc[s] = "idle"
        /\ cmd[s].result.status = "OK"
        /\ cmd[s].storageUsed < 0
        /\ cmd[s].result.storageUsed = 0
        /\ cmd[s].result.quota = maxStorage
        /\ user.storageUsed < 0

\* ----------------------------------------------------------------- SEARCH
\* a term of options.query: text is the value of text, body and flag terms, n
\* of modseq, uids of uid; sub is the list under not, the entries under or
Term(key, text, n, uids, exists, sub) ==
    [key |-> key, text |-> text, n |-> n, uids |-> uids, exists |-> exists, sub |-> sub]

All == Term("all", "", 0, <<>>, FALSE, <<>>)
Not(terms) == Term("not", "", 0, <<>>, FALSE, terms)
Or(entries) == Term("or", "", 0, <<>>, FALSE, entries)
Text(value) == Term("text", value, 0, <<>>, FALSE, <<>>)
Body(value) == Term("body", value, 0, <<>>, FALSE, <<>>)
Modseq(n) == Term("modseq", "", n, <<>>, FALSE, <<>>)
Uid(uids) == Term("uid", "", 0, uids, FALSE, <<>>)
Flag(flag, exists) == Term("flag", flag, 0, <<>>, exists, <<>>)
Size(operator, n) == Term("size", operator, n, <<>>, FALSE, <<>>)

\* an element of the query handed to messages.find; neg: the negated operator
Cond(op, text, n, uids, neg, list) ==
    [op |-> op, text |-> text, n |-> n, uids |-> uids, neg |-> neg, list |-> list]

\* hasAll, nothing, and the calls of callback made inside walkQuery
WalkState(hasAll, nothing, early) ==
    [hasAll |-> hasAll, nothing |-> nothing, early |-> early]

Walked(st, pushed) == [st |-> st, pushed |-> pushed]

RECURSIVE WalkQuery(_, _, _), WalkTerms(_, _, _, _), WalkTerm(_, _, _), WalkEntries(_, _, _)

\* walkQuery(parent, ne, node): the flags after the walk and what was pushed
\* to parent
WalkQuery(st, ne, node) ==
    IF st.hasAll \/ st.nothing THEN Walked(st, <<>>)
    ELSE WalkTerms(st, ne, node, <<>>)

\* node.forEach
WalkTerms(st, ne, node, pushed) ==
    IF node = <<>> THEN Walked(st, pushed)
    ELSE LET r == WalkTerm(st, ne, Head(node))
         IN WalkTerms(r.st, ne, Tail(node), pushed \o r.pushed)

\* case 'or': every entry is walked with ne = false into the new $or
WalkEntries(st, entries, pushed) ==
    IF entries = <<>> THEN Walked(st, pushed)
    ELSE LET r == WalkQuery(st, FALSE, Head(entries))
         IN WalkEntries(r.st, Tail(entries), pushed \o r.pushed)

\* switch (term.key)
WalkTerm(st, ne, term) ==
    CASE term.key = "all" ->
           IF ~ne THEN Walked([st EXCEPT !.hasAll = TRUE], <<>>) ELSE Walked(st, <<>>)
      [] term.key = "not" -> WalkQuery(st, ~ne, term.sub)
      [] term.key = "or" ->
           LET r == WalkEntries(st, term.sub, <<>>)
           IN Walked(r.st, <<Cond("or", "", 0, <<>>, FALSE, r.pushed)>>)
      [] term.key \in {"text", "body"} ->
           IF term.text # "" /\ ~ne
           THEN Walked(st, <<Cond("text", term.text, 0, <<>>, FALSE, <<>>)>>)
           ELSE Walked([st EXCEPT !.nothing = TRUE], <<>>)
      [] term.key = "modseq" ->
           Walked(st, <<Cond("modseq", "", term.n, <<>>, ne, <<>>)>>)
      [] term.key = "uid" ->
           IF term.uids = <<>>
           THEN Walked([st EXCEPT !.early = @ + 1], <<>>)
           ELSE Walked(st, <<Cond("uid", "", 0, term.uids, ne, <<>>)>>)
      [] term.key = "flag" ->
           Walked(st, <<Cond("flag", term.text, 0, <<>>,
                             IF term.exists THEN ne ELSE ~ne, <<>>)>>)
      [] term.key = "size" ->
           Walked(st, <<Cond("size", term.text, term.n, <<>>, ne, <<>>)>>)

\* the words of a message the $text index holds
Fulltext(m) == IF m.uid % 2 = 1 THEN "a" ELSE "b"

RECURSIVE Satisfies(_, _)
\* a document matches an element of the query
Satisfies(m, cond) ==
    CASE cond.op = "or" -> \E i \in 1..Len(cond.list) : Satisfies(m, cond.list[i])
      [] cond.op = "text" -> Fulltext(m) = cond.text
      [] cond.op = "modseq" -> IF cond.neg THEN m.modseq < cond.n ELSE m.modseq >= cond.n
      [] cond.op = "uid" -> Includes(cond.uids, m.uid) # cond.neg
      [] cond.op = "flag" ->
           (CASE cond.text = Seen -> m.seen
              [] cond.text = Deleted -> m.deleted
              [] cond.text = Flagged -> m.flagged
              [] OTHER -> Includes(m.flags, cond.text)) # cond.neg
      [] cond.op = "size" ->
           (CASE cond.text = "<" -> m.size < cond.n
              [] cond.text = "<=" -> m.size <= cond.n
              [] cond.text = ">" -> m.size > cond.n
              [] cond.text = ">=" -> m.size >= cond.n
              [] OTHER -> m.size = cond.n) # cond.neg

RECURSIVE Malformed(_)
\* $and and $or need a non-empty array
Malformed(list) ==
    \/ list = <<>>
    \/ \E i \in 1..Len(list) : list[i].op = "or" /\ Malformed(list[i].list)

\* {uidList, highestModseq}
SearchResult(uidList, highestModseq) ==
    [uidList |-> uidList, highestModseq |-> highestModseq] @@ Result(FALSE, "OK")

NoMatch == SearchResult(<<>>, 0)

\* the documents of the mailbox the query finds
SearchFound(c) ==
    {m \in messages : /\ m.mailbox = c.mailbox.id
                      /\ c.hasAll \/ \A i \in 1..Len(c.find) : Satisfies(m, c.find[i])}

\* the orders a cursor without a sort can yield its documents in
Orders(S) ==
    {f \in [1..Cardinality(S) -> S] : \A i, j \in 1..Cardinality(S) : f[i] = f[j] => i = j}

\* criteria without text and body terms
Criteria ==
    << <<Flag(Seen, TRUE)>>,
       <<Uid(<<1, 2>>)>>,
       <<Modseq(3)>>,
       <<Size(">", 1)>>,
       <<Not(<<Flag(Deleted, TRUE)>>)>>,
       <<Or(<< <<Flag(Seen, TRUE)>>, <<Uid(<<1>>)>> >>)>>,
       <<Flag(Deleted, FALSE), Modseq(3)>>,
       <<All>> >>

\* NOT c for each of the criteria
Negated == [k \in 1..Len(Criteria) |-> <<Not(Criteria[k])>>]

\* the searches of the sessions
SearchQueries ==
    << <<All>>,
       <<Flag(Seen, TRUE)>>,
       <<Not(<<Flag(Seen, TRUE)>>)>>,
       <<Flag(Deleted, FALSE), Modseq(2)>>,
       <<Uid(<<1, 2>>)>>,
       <<Not(<<Uid(<<2>>)>>)>>,
       <<Or(<< <<Flag(Seen, TRUE)>>, <<Uid(<<1>>)>> >>)>>,
       <<Uid(<<>>)>>,
       <<Uid(<<>>), Flag(Seen, FALSE)>>,
       <<Flag(Seen, FALSE), Uid(<<>>)>>,
       <<Text("a")>>,
       <<Text("")>>,
       <<Body(""), Flag(Seen, FALSE)>>,
       <<Not(<<Text("a")>>)>>,
       <<Flag(Seen, FALSE), Not(<<Body("a")>>)>>,
       <<Not(<<Not(<<Text("a")>>)>>)>>,
       <<Not(<<Not(<<Not(<<Text("a")>>)>>)>>)>>,
       <<Not(<<Or(<< <<Text("a")>>, <<Flag(Seen, TRUE)>> >>)>>)>>,
       <<All, Not(<<Text("a")>>)>> >>
    \o Criteria \o Negated

\* server.onSearch: findOne of the mailbox, walkQuery, the rejection when
\* nothing is set; delivered is history: the results handed to callback, in
\* order, and issued the calls of messages.find
SearchStart(s) ==
    /\ Issue(s)
    /\ \E q \in 1..Len(SearchQueries), ok \in Outcomes :
         LET mb == FindMailbox(selected[s].path)
             w == WalkQuery(WalkState(FALSE, FALSE, 0), FALSE, SearchQueries[q])
             c == [query |-> q, hasAll |-> w.st.hasAll, find |-> w.pushed,
                   delivered |-> [i \in 1..w.st.early |-> NoMatch], issued |-> 0]
                  @@ NewCmd(s, "SEARCH")
         IN /\ Spend(ok)
            /\ IF ~ok THEN Callback(s, c, Result(TRUE, ""))
               ELSE IF mb = NoMailbox THEN Callback(s, c, Result(FALSE, "NONEXISTENT"))
               ELSE IF w.st.nothing
               THEN Callback(s, [c EXCEPT !.mailbox = mailboxes[mb],
                                          !.delivered = Append(@, NoMatch)], NoMatch)
               ELSE Goto(s, [c EXCEPT !.mailbox = mailboxes[mb]], "search_next")
    /\ UNCHANGED <<mailboxes, messages, user, journal, nextId, selected, wake,
                   out, allocLog, mutations>>

\* onSearch processNext: messages.find(query) with no sort, every document of
\* the cursor, then callback
SearchNext(s) ==
    /\ pc[s] = "search_next"
    /\ \E ok \in Outcomes :
         LET c == [cmd[s] EXCEPT !.issued = @ + 1]
             failed == Result(TRUE, "Can not make requested search query")
         IN /\ Spend(ok)
            /\ IF ~ok \/ (~c.hasAll /\ Malformed(c.find))
               THEN Callback(s, [c EXCEPT !.delivered = Append(@, failed)], failed)
               ELSE \E order \in Orders(SearchFound(c)) :
                      LET res == SearchResult([i \in 1..Len(order) |-> order[i].uid],
                                     Max({0} \cup {m.modseq : m \in SearchFound(c)}))
                      IN Callback(s, [c EXCEPT !.delivered = Append(@, res)], res)
    /\ UNCHANGED <<mailboxes, messages, user, journal, nextId, selected, wake,
                   out, ncmds, allocLog, mutations>>

SearchMailboxes == [InitMailboxes EXCEPT ![1].uidNext = 4, ![1].modifyIndex = 5]

SearchMessages ==
    {[id |-> 1, mailbox |-> 1, uid |-> 1, modseq |-> 5, flags |-> <<Deleted>>,
      seen |-> FALSE, flagged |-> FALSE, deleted |-> TRUE, size |-> 1],
     [id |-> 2, mailbox |-> 1, uid |-> 2, modseq |-> 2, flags |-> <<>>,
      seen |-> FALSE, flagged |-> FALSE, deleted |-> FALSE, size |-> 2],
     [id |-> 3, mailbox |-> 1, uid |-> 3, modseq |-> 3, flags |-> <<Seen>>,
      seen |-> TRUE, flagged |-> FALSE, deleted |-> FALSE, size |-> 3]}

InitSearch ==
    /\ InitSessions
    /\ mailboxes = SearchMailboxes
    /\ messages = SearchMessages
    /\ selected \in [Sessions -> {SelectFrom("INBOX", SearchMailboxes, SearchMessages),
                                  SelectFrom("Archive", SearchMailboxes, SearchMessages)}]
    /\ user = [quota |-> 0, storageUsed |-> SumSizes(SearchMessages)]
    /\ faults = MaxFaults

NextSearch ==
    \E s \in Sessions : SearchStart(s) \/ SearchNext(s) \/ Flush(s)

SpecSearch == InitSearch /\ [][NextSearch]_vars

\* the SEARCH of the session has handed back a list
Searched(s) ==
    /\ cmd[s].kind = "SEARCH"
    /\ pc[s] \in {"flush", "idle"}
    /\ ~cmd[s].result.err /\ cmd[s].result.status = "OK"

\* the list holds what the query finds, each uid once
SearchComplete(s) ==
    LET r == cmd[s].result
        found == IF cmd[s].issued = 0 THEN {} ELSE SearchFound(cmd[s])
    IN /\ Range(r.uidList) = {m.uid : m \in found}
       /\ Len(r.uidList) = Cardinality(found)
       /\ r.highestModseq = Max({0} \cup {m.modseq : m \in found})

\* C28: the uidList of a SEARCH holds every matching uid exactly once, strictly
\* ascending whatever order the cursor yields, and highestModseq is the highest
\* modseq of the matches, 0 when there is none
SearchAscending ==
    \A s \in Sessions :
        Searched(s) => SearchComplete(s) /\ StrictlyIncreasing(cmd[s].result.uidList)

RECURSIVE HasEmptyUid(_)
\* a uid term with an empty uid set, anywhere in the tree
HasEmptyUid(node) ==
    \E i \in 1..Len(node) :
        \/ node[i].key = "uid" /\ node[i].uids = <<>>
        \/ node[i].key = "not" /\ HasEmptyUid(node[i].sub)
        \/ node[i].key = "or" /\ \E j \in 1..Len(node[i].sub) : HasEmptyUid(node[i].sub[j])

RECURSIVE TextRejected(_, _)
\* a text or body term with an empty value or under an odd number of nots,
\* anywhere in the tree; odd: the nots above node are odd in number
TextRejected(node, odd) ==
    \E i \in 1..Len(node) :
        \/ node[i].key \in {"text", "body"} /\ (node[i].text = "" \/ odd)
        \/ node[i].key = "not" /\ TextRejected(node[i].sub, ~odd)
        \/ node[i].key = "or" /\ \E j \in 1..Len(node[i].sub) : TextRejected(node[i].sub[j], odd)

\* the SEARCH of the session has called back for the last time
SearchEnded(s) ==
    cmd[s].kind = "SEARCH" /\ pc[s] \in {"flush", "idle"} /\ faults = MaxFaults

\* C29: a SEARCH with a uid term whose uid set is empty hands back the empty
\* uidList with highestModseq 0 whatever other criteria accompany it, and
\* nothing of the remaining criteria is delivered
EmptyUidShortCircuits ==
    \A s \in Sessions :
        (SearchEnded(s) /\ HasEmptyUid(SearchQueries[cmd[s].query])) =>
          cmd[s].delivered = <<NoMatch>>

\* C30: a SEARCH with a text or body term under an odd number of nots, anywhere
\* in the tree, or with an empty value, hands back the empty uidList with
\* highestModseq 0 and issues no query against messages
NegatedTextRejected ==
    \A s \in Sessions :
        (SearchEnded(s) /\ TextRejected(SearchQueries[cmd[s].query], FALSE)) =>
          /\ cmd[s].delivered = <<NoMatch>>
          /\ cmd[s].issued = 0

\* ------------ STORE, FETCH, EXPUNGE and COPY with one storage call that fails
SpecJournalFault == InitStoreFault /\ [][NextJournal]_vars

\* the journal entries of the session's commands that session t has not seen
Unseen(s, t) == {i \in Pending(t) : journal[i].by = s}

\* C31: when the completion callback of a STORE, FETCH, EXPUNGE or COPY runs,
\* the mailbox of every journal entry the command appended has been fired after
\* the append, also when a storage error ended the command part-way: every
\* other session that has the mailbox selected and has not seen the entry is
\* woken
FiredAfterAppend ==
    \A s \in Sessions, t \in Sessions :
        (s # t /\ pc[s] \in {"flush", "idle"} /\ Unseen(s, t) # {}) => wake[t]

\* C32: a handler invokes its completion callback exactly once on every path,
\* a SEARCH whose criteria hold an empty uid set included: a SEARCH that has
\* ended has handed back one result, and one that has not ended none
CallbackOnce ==
    \A s \in Sessions :
        cmd[s].kind = "SEARCH" =>
          Len(cmd[s].delivered) = (IF pc[s] \in {"flush", "idle"} THEN 1 ELSE 0)

\* the messages the EXPUNGEs have removed from storage
ExpungedIds == {m.id : m \in ExpungeMessages} \ {m.id : m \in messages}

\* the EXPUNGE entries of the journal for a message
ExpungeEntries(id) ==
    {i \in 1..Len(journal) : journal[i].command = "EXPUNGE" /\ journal[i].message = id}

\* C33: when the sessions' EXPUNGEs of one mailbox have completed, under every
\* interleaving the size of each removed message has been subtracted from
\* user.storageUsed once in total, and the journal holds one EXPUNGE entry
\* for it
ExpungeOncePerMessage ==
    Quiescent =>
      /\ user.storageUsed =
           SumSizes(ExpungeMessages) - SumSizes({m \in ExpungeMessages : m.id \in ExpungedIds})
      /\ \A id \in ExpungedIds : Cardinality(ExpungeEntries(id)) = 1

\* --------------------- STORE with values that repeat a flag or differ in case
ValueUpdates ==
    {Update("set", <<Seen, Seen>>, FALSE, TRUE, -1),
     Update("set", <<"\\seen", Flagged>>, FALSE, TRUE, -1),
     Update("set", <<"kw">>, FALSE, FALSE, -1),
     Update("set", <<>>, FALSE, TRUE, -1),
     Update("add", <<"KW", "KW">>, FALSE, TRUE, -1),
     Update("add", <<"\\seen", Deleted>>, FALSE, FALSE, -1),
     Update("remove", <<"kw">>, FALSE, TRUE, -1),
     Update("remove", <<Seen, Seen>>, FALSE, TRUE, -1)}

StoreStartValues(s) == StoreStartWith(s, ValueUpdates)

ValueMessages ==
    {[id |-> 1, mailbox |-> 1, uid |-> 1, modseq |-> 1, flags |-> <<Seen, Flagged>>,
      seen |-> TRUE, flagged |-> TRUE, deleted |-> FALSE, size |-> 1],
     [id |-> 2, mailbox |-> 1, uid |-> 2, modseq |-> 2, flags |-> <<"KW">>,
      seen |-> FALSE, flagged |-> FALSE, deleted |-> FALSE, size |-> 2],
     [id |-> 3, mailbox |-> 1, uid |-> 3, modseq |-> 3, flags |-> <<>>,
      seen |-> FALSE, flagged |-> FALSE, deleted |-> FALSE, size |-> 3]}

InitValues ==
    /\ InitSessions
    /\ mailboxes = ExpungeMailboxes
    /\ messages = ValueMessages
    /\ selected \in [Sessions -> {SelectFrom("INBOX", ExpungeMailboxes, ValueMessages)}]
    /\ user = [quota |-> 0, storageUsed |-> SumSizes(ValueMessages)]
    /\ faults = MaxFaults

NextValues ==
    \E s \in Sessions :
        \/ StoreStartValues(s) \/ StoreNext(s) \/ StoreBulk(s) \/ StoreNotify(s)
        \/ StoreDoneBulk(s) \/ StoreDoneNotify(s) \/ StoreMailboxFlags(s)
        \/ Flush(s)

SpecValues == InitValues /\ [][NextValues]_vars

\* the flags stored for the message of the selected mailbox with the uid
StoredFlags(s, uid) == MessageByUid(selected[s].mailbox, uid).flags

\* C34: for every message of a non-silent STORE that completed with OK and ran
\* alone, the flags of the FETCH response written for the message are, as a
\* set, the flags stored for it once the command has completed, for set, add
\* and remove and for values that repeat a flag or differ in letter case
WrittenIsStored ==
    \A s \in Sessions :
        (Alone(s, "STORE") /\ StoreCompleted(s)) =>
          \A i \in 1..Len(out[s]) :
              (out[s][i].t = "FETCH" /\ out[s][i].e = 0) =>
                Range(out[s][i].flags) = Range(StoredFlags(s, out[s][i].ref))

\* --------------------------------- EXPUNGE with one storage call that fails
InitExpungeFault ==
    /\ InitSessions
    /\ mailboxes = ExpungeMailboxes
    /\ messages = ExpungeMessages
    /\ selected \in [Sessions -> {SelectFrom("INBOX", ExpungeMailboxes, ExpungeMessages)}]
    /\ user = [quota |-> 0, storageUsed |-> SumSizes(ExpungeMessages)]
    /\ faults = MaxFaults + 1

SpecExpungeFault == InitExpungeFault /\ [][NextExpunge]_vars

\* the uids of the EXPUNGE responses the session's own command wrote
ToldExpunged(s) ==
    {out[s][i].ref : i \in {j \in 1..Len(out[s]) : out[s][j].t = "EXPUNGE" /\ out[s][j].e = 0}}

\* C35: every EXPUNGE response an EXPUNGE wrote to its client is about a
\* message that is no longer stored when the command completes, also when a
\* delete failed
ExpungeToldIsRemoved ==
    \A s \in Sessions :
        (cmd[s].kind = "EXPUNGE" /\ pc[s] \in {"flush", "idle"}) =>
          \A uid \in ToldExpunged(s) :
              ~\E m \in messages : m.mailbox = selected[s].mailbox /\ m.uid = uid

\* the place of the k-th of the criteria among the searches
CriterionAt(k) == Len(SearchQueries) - 2 * Len(Criteria) + k

\* session s searched the k-th of the criteria and session t its negation, in
\* the same mailbox
SearchedBoth(s, t, k) ==
    /\ SearchEnded(s) /\ SearchEnded(t)
    /\ selected[s].mailbox = selected[t].mailbox
    /\ cmd[s].query = CriterionAt(k)
    /\ cmd[t].query = CriterionAt(k) + Len(Criteria)

\* the two results are lists, disjoint, and together hold every message of the
\* mailbox
Complementary(s, t) ==
    /\ Searched(s) /\ Searched(t)
    /\ Range(cmd[s].result.uidList) \cap Range(cmd[t].result.uidList) = {}
    /\ Range(cmd[s].result.uidList) \cup Range(cmd[t].result.uidList)
         = {m.uid : m \in MessagesOf(selected[s].mailbox)}

\* C36: for criteria c built from ALL, UID, FLAG, MODSEQ, SIZE, OR and NOT the
\* result of SEARCH NOT c is the complement, within the mailbox, of the result
\* of SEARCH c
NotIsComplement ==
    \A s \in Sessions, t \in Sessions, k \in 1..Len(Criteria) :
        SearchedBoth(s, t, k) => Complementary(s, t)

\* the stored messages whose mailbox document is gone
Orphans == {m \in messages : ~mailboxes[m.mailbox].exists}

\* C37: once a DELETE and every command that ran along with it have
\* completed, no stored message refers to a deleted mailbox and
\* user.storageUsed counts no such message, also when a COPY into the mailbox
\* was in progress while the DELETE ran
NoOrphans ==
    (Quiescent /\ Cardinality({s \in Sessions : DeleteSucceeded(s)}) = 1) =>
      /\ Orphans = {}
      /\ user.storageUsed = SumSizes(messages \ Orphans)

\* ------------------------------- DELETE and CREATE again at the same path
\* the mailboxes as before and New, which a CREATE inserted at the earliest
\* time of the clock
RecreateInit ==
    [MailboxInit EXCEPT ![5] = NewMailbox(5, "New", Min(Clock))]

InitRecreate ==
    /\ InitSessions
    /\ mailboxes = RecreateInit
    /\ messages = MailboxMessages
    /\ selected = [s \in Sessions |-> SelectFrom("INBOX", RecreateInit, MailboxMessages)]
    /\ user = [quota |-> 0, storageUsed |-> SumSizes(MailboxMessages)]
    /\ faults = MaxFaults

NextRecreate ==
    \E s \in Sessions :
        \/ CreateStart(s) \/ CreateInsert(s)
        \/ DeleteStart(s) \/ DeleteMailbox(s) \/ DeleteAggregate(s)
        \/ DeleteMessages(s) \/ DeleteQuota(s) \/ DeleteJournal(s)
        \/ Flush(s)

SpecRecreate == InitRecreate /\ [][NextRecreate]_vars

\* the document in slot new was created at the path of the deleted document in
\* slot old
Recreated(old, new) ==
    /\ old < new
    /\ mailboxes[old].id # NoMailbox /\ ~mailboxes[old].exists
    /\ mailboxes[new].exists
    /\ mailboxes[new].path = mailboxes[old].path

\* C38: a mailbox created at the path of a deleted mailbox has a uidValidity
\* that differs from the deleted mailbox's, whatever the time between the
\* DELETE and the CREATE
RecreatedDiffers ==
    \A old \in MailboxIds, new \in MailboxIds :
        Recreated(old, new) => mailboxes[new].uidValidity # mailboxes[old].uidValidity
====
